---- MODULE Spec2Model ----
(***************************************************************************)
(* A model of the ardl reliable-transport core: the Seq32 arithmetic, the  *)
(* wire codec, the receive side (Rwnd, RecvBuf, Downloader) and the send   *)
(* side (BufSlicerQue, Swnd, FastRetransmissionWnd, FragBundler,           *)
(* Uploader), and two endpoints joined by a lossy datagram channel.        *)
(*                                                                         *)
(* A 32-bit sequence number n is kept as the two's-complement integer of   *)
(* the same bit pattern (n below 2^31 is itself, n from 2^31 up is         *)
(* n - 2^32), so that every value stays inside the checker's integers and  *)
(* wrap-around is still computed.  Time is in milliseconds; an Instant is  *)
(* kept as the time elapsed since it was taken.                            *)
(***************************************************************************)
EXTENDS Integers, Sequences, FiniteSets, TLC

VARIABLES
    up,        \* up[e]: the Uploader of endpoint e
    down,      \* down[e]: the Downloader of endpoint e
    net,       \* net[e]: the datagrams in flight towards endpoint e
    seen,      \* seen[e]: the datagrams that were handed to down[e] so far
    accepted,  \* accepted[e]: the bytes up[e].write accepted so far
    returned,  \* returned[e]: the bytes down[e].recv handed out so far
    ret,       \* the last call: which operation, its arguments, what it returned,
               \* and in before the state of the endpoint it was called on
    track,     \* bookkeeping about the calls made so far
    budget     \* what the environment may still do (losses, duplicates, ...)

vars == <<up, down, net, seen, accepted, returned, ret, track, budget>>

----------------------------------------------------------------------------
(* Program constants *)

PACKET_HDR_LEN == 6
PUSH_HDR_LEN == 9
ACK_HDR_LEN == 5
MAX_RTO_MS == 60000
DEFAULT_RTO_MS == 3000
MIN_RTO_MS == 100

I32Max == 2147483647
I32Min == (-2147483647) - 1
U16Mod == 65536

----------------------------------------------------------------------------
(* Small helpers on functions and sequences *)

Put(f, k, v) ==
    [x \in (DOMAIN f) \cup {k} |-> IF x = k THEN v ELSE f[x]]

Del(f, k) ==
    [x \in (DOMAIN f) \ {k} |-> f[x]]

RECURSIVE Flatten(_)
Flatten(ss) ==
    IF ss = <<>> THEN <<>> ELSE Head(ss) \o Flatten(Tail(ss))

IsPrefix(s, t) ==
    /\ Len(s) <= Len(t)
    /\ \A i \in 1..Len(s) : s[i] = t[i]

Drop(s, n) ==
    SubSeq(s, n + 1, Len(s))

Take(s, n) ==
    SubSeq(s, 1, n)

----------------------------------------------------------------------------
(* Seq32 *)

\* u32 order on the two's-complement representation
ULt(a, b) ==
    \/ a >= 0 /\ b < 0
    \/ (a < 0) = (b < 0) /\ a < b

\* a comparison that takes a difference of exactly 2^31 for a small one
DiffLeHalfInclusive(lo, hi) ==
    IF (lo < 0) = (hi < 0) THEN TRUE ELSE (hi + I32Max) < lo

\* for lo below hi as u32: whether hi - lo <= u32::MAX / 2
DiffLeHalf(lo, hi) ==
    IF (lo < 0) = (hi < 0) THEN TRUE ELSE (hi + I32Max) + 1 < lo

SeqCmp(a, b) ==
    IF ULt(a, b) THEN (IF DiffLeHalf(a, b) THEN "Less" ELSE "Greater")
    ELSE IF a = b THEN "Equal"
    ELSE (IF DiffLeHalf(b, a) THEN "Greater" ELSE "Less")

SeqLt(a, b) == SeqCmp(a, b) = "Less"

SeqLe(a, b) == SeqCmp(a, b) # "Greater"

SeqMax(lhs, rhs) ==
    IF SeqLt(lhs, rhs) THEN rhs ELSE lhs

\* wrapping_add of a small n
AddUsize(a, n) ==
    IF a <= I32Max - n THEN a + n ELSE I32Min + ((n - (I32Max - a)) - 1)

\* wrapping_sub, the u32 result again in two's complement
SeqSub(a, b) ==
    IF (a < 0) = (b < 0) THEN a - b
    ELSE IF a >= 0
         THEN LET t == (a + I32Min) - b
              IN  IF t < 0 THEN (t + I32Max) + 1 ELSE t + I32Min
         ELSE LET t == (a - I32Min) - b
              IN  IF t >= 0 THEN t + I32Min ELSE (t + I32Max) + 1

\* usize comparison of a SeqSub result n with a small count c: c <= n
CountLe(c, n) ==
    n < 0 \/ c <= n

----------------------------------------------------------------------------
(* Wire codec *)

\* an encoding of u16 that keeps the low byte only
BE2Low(n) ==
    <<0, n % 256>>

BE2(n) ==
    <<(n \div 256) % 256, n % 256>>

FromBE2(b) ==
    b[1] * 256 + b[2]

BE4Nat(n) ==
    <<n \div 16777216, (n \div 65536) % 256, (n \div 256) % 256, n % 256>>

BE4(v) ==
    IF v >= 0 THEN BE4Nat(v)
    ELSE LET c == BE4Nat(-(v + 1))
         IN  <<255 - c[1], 255 - c[2], 255 - c[3], 255 - c[4]>>

FromBE4(b) ==
    IF b[1] < 128
    THEN b[1] * 16777216 + b[2] * 65536 + b[3] * 256 + b[4]
    ELSE -((255 - b[1]) * 16777216 + (255 - b[2]) * 65536
           + (255 - b[3]) * 256 + (255 - b[4])) - 1

CmdPush == 0
CmdAck == 1

PacketHeaderToBytes(rwnd, nack) ==
    BE2(rwnd) \o BE4(nack)

PacketHeaderFromBytes(b) ==
    IF Len(b) < PACKET_HDR_LEN
    THEN [ok |-> FALSE]
    ELSE [ok |-> TRUE, rwnd |-> FromBE2(Take(b, 2)),
          nack |-> FromBE4(SubSeq(b, 3, 6)), rest |-> Drop(b, PACKET_HDR_LEN)]

\* a fragment is [seq, cmd, body]; an Ack's body is empty
FragToBytes(f) ==
    IF f.cmd = CmdPush
    THEN BE4(f.seq) \o <<CmdPush>> \o BE4(Len(f.body)) \o f.body
    ELSE BE4(f.seq) \o <<CmdAck>>

FragLen(f) ==
    IF f.cmd = CmdPush THEN PUSH_HDR_LEN + Len(f.body) ELSE ACK_HDR_LEN

FragHeaderFromBytes(b) ==
    IF Len(b) < 5 THEN [ok |-> FALSE]
    ELSE LET seq == FromBE4(Take(b, 4))
             cmd == b[5]
         IN  IF cmd = CmdAck
             THEN [ok |-> TRUE, seq |-> seq, cmd |-> CmdAck, len |-> 0,
                   rest |-> Drop(b, ACK_HDR_LEN)]
             ELSE IF cmd = CmdPush
             THEN IF Len(b) < PUSH_HDR_LEN THEN [ok |-> FALSE]
                  ELSE LET len == FromBE4(SubSeq(b, 6, 9))
                       IN  IF len = 0 THEN [ok |-> FALSE]
                           ELSE [ok |-> TRUE, seq |-> seq, cmd |-> CmdPush,
                                 len |-> len, rest |-> Drop(b, PUSH_HDR_LEN)]
             ELSE [ok |-> FALSE]

RECURSIVE FragsToBytes(_)
FragsToBytes(fs) ==
    IF fs = <<>> THEN <<>> ELSE FragToBytes(Head(fs)) \o FragsToBytes(Tail(fs))

PacketToBytes(rwnd, nack, frags) ==
    PacketHeaderToBytes(rwnd, nack) \o FragsToBytes(frags)

\* the loop of Packet::from_slice over Frag::from_slice, which reads the header of
\* a fragment as FragHeader::from_bytes does and then pops the body of a Push
RECURSIVE FragsFromSlice(_, _)
FragsFromSlice(frags, b) ==
    LET Frag(hdr) ==
            IF ~hdr.ok \/ hdr.len < 0 \/ hdr.len > Len(hdr.rest)
            THEN [ok |-> FALSE]
            ELSE FragsFromSlice(
                     Append(frags, [seq |-> hdr.seq, cmd |-> hdr.cmd,
                                    body |-> Take(hdr.rest, hdr.len)]),
                     Drop(hdr.rest, hdr.len))
    IN  IF b = <<>> THEN [ok |-> TRUE, frags |-> frags, rest |-> b]
        ELSE Frag(FragHeaderFromBytes(b))

PacketFromSlice(b) ==
    LET Frags(hdr, r) ==
            IF ~r.ok THEN [ok |-> FALSE]
            ELSE [ok |-> TRUE, rwnd |-> hdr.rwnd, nack |-> hdr.nack,
                  frags |-> r.frags, rest |-> r.rest]
        Header(hdr) ==
            IF ~hdr.ok THEN [ok |-> FALSE]
            ELSE Frags(hdr, FragsFromSlice(<<>>, hdr.rest))
    IN  Header(PacketHeaderFromBytes(b))

----------------------------------------------------------------------------
(* Rwnd: the receive window *)

RwndNew(size) ==
    [wnd |-> <<>>, size |-> size, start |-> 0]

\* a window that looks for its start before it looks for its end
RwndLocationStartFirst(w, seq) ==
    IF ~SeqLe(w.start, seq) THEN "TooLate"
    ELSE IF w.start = seq THEN "AtRecvWindowStart"
    ELSE IF ~SeqLt(seq, AddUsize(w.start, w.size)) THEN "TooEarly"
    ELSE "InRecvWindow"

\* a window that reaches one sequence further than its size
RwndLocationWide(w, seq) ==
    IF ~SeqLe(w.start, seq) THEN "TooLate"
    ELSE IF ~SeqLt(seq, AddUsize(w.start, w.size + 1)) THEN "TooEarly"
    ELSE IF w.start = seq THEN "AtRecvWindowStart"
    ELSE "InRecvWindow"

RwndLocation(w, seq) ==
    IF ~SeqLe(w.start, seq) THEN "TooLate"
    ELSE IF ~SeqLt(seq, AddUsize(w.start, w.size)) THEN "TooEarly"
    ELSE IF w.start = seq THEN "AtRecvWindowStart"
    ELSE "InRecvWindow"

\* a window that gives up a slot of its size for an entry it stores
RwndInsertTakesSlot(w, seq, v) ==
    [w EXCEPT !.wnd = Put(w.wnd, seq, v), !.size = w.size - 1]

RwndInsert(w, seq, v) ==
    [w EXCEPT !.wnd = Put(w.wnd, seq, v)]

RwndIncrementSize(w) ==
    [w EXCEPT !.size = w.size + 1]

RwndProceed(w) ==
    [w EXCEPT !.start = AddUsize(w.start, 1), !.size = w.size - 1]

----------------------------------------------------------------------------
(* RecvBuf: the receive window and the queue of slices ready to be read *)

RecvBufNew(len) ==
    [rwnd |-> RwndNew(len), sorted |-> <<>>, len |-> len]

\* the loop of RecvBuf::insert over Rwnd::pop_next
RECURSIVE RecvBufDrain(_)
RecvBufDrain(rb) ==
    IF rb.rwnd.start \in DOMAIN rb.rwnd.wnd
    THEN RecvBufDrain([rb EXCEPT
             !.sorted = Append(rb.sorted, rb.rwnd.wnd[rb.rwnd.start]),
             !.rwnd = RwndProceed([rb.rwnd EXCEPT
                          !.wnd = Del(rb.rwnd.wnd, rb.rwnd.start)])])
    ELSE rb

\* a receive buffer that takes a late sequence once more
RecvBufInsertLate(rb, seq, v) ==
    LET At(location) ==
            [location |-> location,
             rb |-> IF location = "InRecvWindow"
                    THEN [rb EXCEPT !.rwnd = RwndInsert(rb.rwnd, seq, v)]
                    ELSE IF location \in {"AtRecvWindowStart", "TooLate"}
                    THEN RecvBufDrain([rb EXCEPT
                             !.sorted = Append(rb.sorted, v),
                             !.rwnd = RwndProceed(rb.rwnd)])
                    ELSE rb]
    IN  At(RwndLocation(rb.rwnd, seq))

RecvBufInsert(rb, seq, v) ==
    LET At(location) ==
            [location |-> location,
             rb |-> IF location = "InRecvWindow"
                    THEN [rb EXCEPT !.rwnd = RwndInsert(rb.rwnd, seq, v)]
                    ELSE IF location = "AtRecvWindowStart"
                    THEN RecvBufDrain([rb EXCEPT
                             !.sorted = Append(rb.sorted, v),
                             !.rwnd = RwndProceed(rb.rwnd)])
                    ELSE rb]
    IN  At(RwndLocation(rb.rwnd, seq))

RecvBufPopFront(rb) ==
    IF rb.sorted = <<>>
    THEN [some |-> FALSE, rb |-> rb]
    ELSE [some |-> TRUE, v |-> Head(rb.sorted),
          rb |-> [rb EXCEPT !.sorted = Tail(rb.sorted),
                            !.rwnd = RwndIncrementSize(rb.rwnd)]]

----------------------------------------------------------------------------
(* Downloader *)

DownloaderBuild(recv_buf_len) ==
    [recv_buf |-> RecvBufNew(recv_buf_len),
     leftover |-> <<>>,
     stat |-> [early_pushes |-> 0, late_pushes |-> 0, out_of_orders |-> 0,
               decoding_errors |-> 0, packets |-> 0, acks |-> 0, pushes |-> 0]]

DecodingError(d) ==
    [d EXCEPT !.stat.decoding_errors = d.stat.decoding_errors + 1]

\* a Downloader that acknowledges only what it stores
HandlePushNoLateAck(d, seq, body) ==
    LET Inserted(r, d1) ==
            [ack |-> r.location \in {"InRecvWindow", "AtRecvWindowStart"},
             d |-> IF r.location = "InRecvWindow"
                   THEN [d1 EXCEPT !.stat.out_of_orders = d.stat.out_of_orders + 1]
                   ELSE IF r.location = "TooLate"
                   THEN [d1 EXCEPT !.stat.late_pushes = d.stat.late_pushes + 1]
                   ELSE IF r.location = "TooEarly"
                   THEN [d1 EXCEPT !.stat.early_pushes = d.stat.early_pushes + 1]
                   ELSE d1]
        Insert(r) ==
            Inserted(r, [d EXCEPT !.recv_buf = r.rb,
                                  !.stat.pushes = d.stat.pushes + 1])
    IN  Insert(RecvBufInsert(d.recv_buf, seq, body))

\* a Downloader that acknowledges every Push, also one it has no room for
HandlePushAcksEarly(d, seq, body) ==
    LET Inserted(r, d1) ==
            [ack |-> TRUE,
             d |-> IF r.location = "InRecvWindow"
                   THEN [d1 EXCEPT !.stat.out_of_orders = d.stat.out_of_orders + 1]
                   ELSE IF r.location = "TooLate"
                   THEN [d1 EXCEPT !.stat.late_pushes = d.stat.late_pushes + 1]
                   ELSE IF r.location = "TooEarly"
                   THEN [d1 EXCEPT !.stat.early_pushes = d.stat.early_pushes + 1]
                   ELSE d1]
        Insert(r) ==
            Inserted(r, [d EXCEPT !.recv_buf = r.rb,
                                  !.stat.pushes = d.stat.pushes + 1])
    IN  Insert(RecvBufInsert(d.recv_buf, seq, body))

HandlePush(d, seq, body) ==
    LET Inserted(r, d1) ==
            [ack |-> r.location # "TooEarly",
             d |-> IF r.location = "InRecvWindow"
                   THEN [d1 EXCEPT !.stat.out_of_orders = d.stat.out_of_orders + 1]
                   ELSE IF r.location = "TooLate"
                   THEN [d1 EXCEPT !.stat.late_pushes = d.stat.late_pushes + 1]
                   ELSE IF r.location = "TooEarly"
                   THEN [d1 EXCEPT !.stat.early_pushes = d.stat.early_pushes + 1]
                   ELSE d1]
        Insert(r) ==
            Inserted(r, [d EXCEPT !.recv_buf = r.rb,
                                  !.stat.pushes = d.stat.pushes + 1])
    IN  Insert(RecvBufInsert(d.recv_buf, seq, body))

\* acc is [d, remote_seqs_to_ack, acked_local_seqs]; b is what the reader still holds
RECURSIVE HandleFrags(_, _)
HandleFrags(acc, b) ==
    LET Pushed(hdr, r) ==
            HandleFrags(
                [acc EXCEPT
                    !.d = r.d,
                    !.remote_seqs_to_ack =
                        IF r.ack THEN Append(acc.remote_seqs_to_ack, hdr.seq)
                        ELSE acc.remote_seqs_to_ack],
                Drop(hdr.rest, hdr.len))
        Frag(hdr) ==
            IF ~hdr.ok
            THEN [acc EXCEPT !.d = DecodingError(acc.d)]
            ELSE IF hdr.cmd = CmdAck
            THEN HandleFrags(
                     [acc EXCEPT
                         !.acked_local_seqs = Append(acc.acked_local_seqs, hdr.seq),
                         !.d.stat.acks = acc.d.stat.acks + 1],
                     hdr.rest)
            ELSE IF hdr.len < 0 \/ hdr.len > Len(hdr.rest)
            THEN [acc EXCEPT !.d = DecodingError(acc.d)]
            ELSE Pushed(hdr, HandlePush(acc.d, hdr.seq, Take(hdr.rest, hdr.len)))
    IN  IF b = <<>> THEN acc ELSE Frag(FragHeaderFromBytes(b))

HandlePacket(d, b) ==
    LET Handled(hdr, r) ==
            [ok |-> TRUE,
             d |-> [r.d EXCEPT !.stat.packets = r.d.stat.packets + 1],
             remote_rwnd |-> hdr.rwnd, remote_nack |-> hdr.nack,
             remote_seqs_to_ack |-> r.remote_seqs_to_ack,
             acked_local_seqs |-> r.acked_local_seqs]
        Packet(hdr) ==
            IF ~hdr.ok
            THEN [ok |-> FALSE, d |-> DecodingError(d)]
            ELSE Handled(hdr, HandleFrags(
                                  [d |-> d, remote_seqs_to_ack |-> <<>>,
                                   acked_local_seqs |-> <<>>], hdr.rest))
    IN  Packet(PacketHeaderFromBytes(b))

\* a Downloader that reports the window it was built with
InputPacketOfBuild(d, b) ==
    LET State(r) ==
            IF ~r.ok THEN [ok |-> FALSE, d |-> r.d]
            ELSE [ok |-> TRUE, d |-> r.d,
                  state |-> [remote_rwnd_size |-> r.remote_rwnd,
                             remote_nack |-> r.remote_nack,
                             local_next_seq_to_receive |-> r.d.recv_buf.rwnd.start,
                             remote_seqs_to_ack |-> r.remote_seqs_to_ack,
                             acked_local_seqs |-> r.acked_local_seqs,
                             local_rwnd_size |-> r.d.recv_buf.len]]
    IN  State(HandlePacket(d, b))

InputPacket(d, b) ==
    LET State(r) ==
            IF ~r.ok THEN [ok |-> FALSE, d |-> r.d]
            ELSE [ok |-> TRUE, d |-> r.d,
                  state |-> [remote_rwnd_size |-> r.remote_rwnd,
                             remote_nack |-> r.remote_nack,
                             local_next_seq_to_receive |-> r.d.recv_buf.rwnd.start,
                             remote_seqs_to_ack |-> r.remote_seqs_to_ack,
                             acked_local_seqs |-> r.acked_local_seqs,
                             local_rwnd_size |-> r.d.recv_buf.rwnd.size]]
    IN  State(HandlePacket(d, b))

Recv(d) ==
    LET r == RecvBufPopFront(d.recv_buf)
    IN  IF r.some THEN [some |-> TRUE, v |-> r.v, d |-> [d EXCEPT !.recv_buf = r.rb]]
        ELSE [some |-> FALSE, d |-> d]

RecvMax(d, max_len) ==
    LET r == IF d.leftover # <<>>
             THEN [some |-> TRUE, v |-> d.leftover[1],
                   d |-> [d EXCEPT !.leftover = <<>>]]
             ELSE Recv(d)
    IN  IF ~r.some THEN [some |-> FALSE, d |-> d]
        ELSE IF Len(r.v) > max_len
        THEN [some |-> TRUE, v |-> Take(r.v, max_len),
              d |-> [r.d EXCEPT !.leftover = <<Drop(r.v, max_len)>>]]
        ELSE r

----------------------------------------------------------------------------
(* BufSlicerQue: the to-send queue *)

BufSlicerQueNew(len_cap) ==
    [queue |-> <<>>, len_cap |-> len_cap]

\* a queue that lets one slice too many in
BufSlicerQueIsFullOver(q) ==
    Len(q.queue) > q.len_cap

BufSlicerQueIsFull(q) ==
    Len(q.queue) = q.len_cap

BufSlicerQuePushBack(q, slice) ==
    IF BufSlicerQueIsFull(q) THEN [ok |-> FALSE, q |-> q]
    ELSE IF slice = <<>> THEN [ok |-> TRUE, q |-> q]
    ELSE [ok |-> TRUE, q |-> [q EXCEPT !.queue = Append(q.queue, slice)]]

\* a slice_front that drops what it does not return of the head slice
BufSlicerQueSliceFrontWhole(q, max_len) ==
    [v |-> IF Len(Head(q.queue)) <= max_len THEN Head(q.queue)
           ELSE Take(Head(q.queue), max_len),
     q |-> [q EXCEPT !.queue = Tail(q.queue)]]

\* called on a queue that is not empty
BufSlicerQueSliceFront(q, max_len) ==
    LET slice == Head(q.queue)
    IN  IF Len(slice) <= max_len
        THEN [v |-> slice, q |-> [q EXCEPT !.queue = Tail(q.queue)]]
        ELSE [v |-> Take(slice, max_len),
              q |-> [q EXCEPT !.queue = <<Drop(slice, max_len)>> \o Tail(q.queue)]]

----------------------------------------------------------------------------
(* SendingPush: a Push in the send window *)

SendingPushNew(body) ==
    [body |-> body, last_sent |-> 0, is_retransmitted |-> FALSE]

ToRetransmit(push) ==
    [push EXCEPT !.last_sent = 0, !.is_retransmitted = TRUE]

----------------------------------------------------------------------------
(* Swnd: the send window *)

SwndNew(wnd_size_cap) ==
    [wnd |-> <<>>, remote_rwnd_size |-> 0, end |-> 0, wnd_size_cap |-> wnd_size_cap]

\* the first key of the map
FirstKey(S) ==
    CHOOSE k \in S : \A j \in S : ~SeqLt(j, k)

\* the keys of the map in its iteration order
RECURSIVE KeysAsc(_)
KeysAsc(S) ==
    IF S = {} THEN <<>> ELSE <<FirstKey(S)>> \o KeysAsc(S \ {FirstKey(S)})

SwndStart(w) ==
    IF DOMAIN w.wnd = {} THEN w.end ELSE FirstKey(DOMAIN w.wnd)

\* a size that counts the entries and not the holes between them
SwndSizeByCount(w) ==
    Cardinality(DOMAIN w.wnd)

SwndSize(w) ==
    SeqSub(w.end, SwndStart(w))

Max(a, b) ==
    IF a >= b THEN a ELSE b

Min(a, b) ==
    IF a <= b THEN a ELSE b

\* Swnd::check_rep
SwndCheckRep(w) ==
    /\ Cardinality(DOMAIN w.wnd) <= w.wnd_size_cap
    /\ SeqLe(SwndStart(w), w.end)
    /\ \A seq \in DOMAIN w.wnd : SeqLt(seq, w.end)

\* a send window that only its own cap bounds
SwndIsFullByCap(w) ==
    CountLe(w.wnd_size_cap, SwndSize(w))

\* a send window that a remote window of 0 closes
SwndIsFullAtZero(w) ==
    \/ CountLe(w.remote_rwnd_size, SwndSize(w))
    \/ CountLe(w.wnd_size_cap, SwndSize(w))

SwndIsFull(w) ==
    \/ CountLe(Max(w.remote_rwnd_size, 1), SwndSize(w))
    \/ CountLe(w.wnd_size_cap, SwndSize(w))

SwndPushBack(w, v) ==
    [w EXCEPT !.wnd = Put(w.wnd, w.end, v), !.end = AddUsize(w.end, 1)]

SwndRemove(w, ack) ==
    [w EXCEPT !.wnd = Del(w.wnd, ack)]

\* a remove_before that gives up after the first key
ToRemovesOne(ks, nack) ==
    IF ks = <<>> \/ ~SeqLt(Head(ks), nack) THEN {} ELSE {Head(ks)}

\* the keys remove_before collects: it stops at the first key that is not below nack
RECURSIVE ToRemoves(_, _)
ToRemoves(ks, nack) ==
    IF ks = <<>> \/ ~SeqLt(Head(ks), nack) THEN {}
    ELSE {Head(ks)} \cup ToRemoves(Tail(ks), nack)

SwndRemoveBefore(w, nack) ==
    LET gone == ToRemoves(KeysAsc(DOMAIN w.wnd), nack)
    IN  [w EXCEPT !.wnd = [k \in (DOMAIN w.wnd) \ gone |-> w.wnd[k]]]

\* the keys of range_mut(start, end), in order
SwndRange(w, start, end) ==
    KeysAsc({k \in DOMAIN w.wnd : SeqLe(start, k) /\ SeqLt(k, end)})

----------------------------------------------------------------------------
(* ConsecutiveDuplicateCount, DuplicateThreshold, FastRetransmissionWnd *)

\* a counter that counts the first offer of a value as well
DuplicateCountSetFromOne(c, v) ==
    [value |-> v, count |-> IF v = c.value THEN c.count + 1 ELSE 1]

DuplicateCountSet(c, v) ==
    [value |-> v, count |-> IF v = c.value THEN c.count + 1 ELSE 0]

DuplicateCountRecount(c) ==
    [c EXCEPT !.count = 0]

\* an activation that needs one duplicate more
IsActivatedStrict(t) ==
    t.dup_threshold_to_activate < t.duplicate.count

IsActivated(t) ==
    t.dup_threshold_to_activate <= t.duplicate.count

FastRetransmissionWndNew(limit) ==
    [start |-> 0, end |-> 0,
     duplicate_threshold |-> [duplicate |-> [value |-> 0, count |-> 0],
                              dup_threshold_to_activate |-> limit]]

\* FastRetransmissionWnd::check_rep
FrwCheckRep(f) ==
    SeqLe(f.start, f.end)

FrwContains(f, seq) ==
    SeqLe(f.start, seq) /\ SeqLt(seq, f.end)

FrwIsEmpty(f) ==
    f.end = f.start

\* a window that forgets what was resent
FrwRetransmittedKeeps(f, seq) ==
    f

FrwRetransmitted(f, seq) ==
    [f EXCEPT !.start = AddUsize(seq, 1)]

\* boundaries that cover the nack alone
TrySetBoundariesNarrow(f, start, end) ==
    LET t == [f.duplicate_threshold EXCEPT
                 !.duplicate = DuplicateCountSet(f.duplicate_threshold.duplicate, start)]
    IN  IF IsActivated(t)
        THEN [start |-> start, end |-> AddUsize(start, 1),
              duplicate_threshold |->
                  [t EXCEPT !.duplicate = DuplicateCountRecount(t.duplicate)]]
        ELSE [f EXCEPT !.duplicate_threshold = t]

TrySetBoundaries(f, start, end) ==
    LET t == [f.duplicate_threshold EXCEPT
                 !.duplicate = DuplicateCountSet(f.duplicate_threshold.duplicate, start)]
    IN  IF IsActivated(t)
        THEN [start |-> start, end |-> end,
              duplicate_threshold |->
                  [t EXCEPT !.duplicate = DuplicateCountRecount(t.duplicate)]]
        ELSE [f EXCEPT !.duplicate_threshold = t]

----------------------------------------------------------------------------
(* FragBundler *)

FragBundlerNew(space) ==
    [each_bundle_space |-> space, bundles |-> <<>>, loading_bundle |-> <<>>,
     loading_len |-> 0, too_large |-> FALSE]

FragBundlerPack(b, frag) ==
    IF ~(FragLen(frag) <= b.each_bundle_space)
    THEN [b EXCEPT !.too_large = TRUE]
    ELSE IF ~(FragLen(frag) + b.loading_len <= b.each_bundle_space)
    THEN [b EXCEPT !.bundles = Append(b.bundles, b.loading_bundle),
                   !.loading_bundle = <<frag>>,
                   !.loading_len = FragLen(frag)]
    ELSE [b EXCEPT !.loading_bundle = Append(b.loading_bundle, frag),
                   !.loading_len = b.loading_len + FragLen(frag)]

LoadingSpace(b) ==
    b.each_bundle_space - b.loading_len

\* bundles that end with the loading bundle even when nothing was loaded
IntoBundlesAlways(b) ==
    Append(b.bundles, b.loading_bundle)

IntoBundles(b) ==
    IF b.loading_len > 0 THEN Append(b.bundles, b.loading_bundle) ELSE b.bundles

----------------------------------------------------------------------------
(* Uploader *)

MtuIsEnough(mtu) ==
    /\ PACKET_HDR_LEN + ACK_HDR_LEN <= mtu
    /\ PACKET_HDR_LEN + PUSH_HDR_LEN + 1 <= mtu

\* srtt is <<>> for None and <<ms>> for Some(ms)
UploaderBuild(b) ==
    [to_send_queue |-> BufSlicerQueNew(b.to_send_queue_len_cap),
     swnd |-> SwndNew(b.swnd_size_cap),
     to_ack_queue |-> <<>>,
     last_sent_heap |-> <<>>,
     local_rwnd_size |-> b.local_recv_buf_len,
     local_next_seq_to_receive |-> 0,
     fast_retransmission_wnd |-> FastRetransmissionWndNew(
         b.nack_duplicate_threshold_to_activate_fast_retransmit),
     stat |-> [srtt |-> <<>>, retransmissions |-> 0, rto_hits |-> 0,
               fast_retransmissions |-> 0, pushes |-> 0, acks |-> 0],
     ratio_rto_to_one_rtt |-> b.ratio_rto_to_one_rtt,
     mtu |-> b.mtu,
     disable_rto |-> FALSE,
     on_send_available |-> "None"]

\* Builder::build: the Uploader is built first, and its check_rep asserts that
\* local_rwnd_size fits in u16
BuilderBuild(b) ==
    IF ~MtuIsEnough(b.mtu) THEN [result |-> "MtuTooSmall"]
    ELSE IF ~(b.local_recv_buf_len <= U16Mod - 1) THEN [result |-> "panic"]
    ELSE [result |-> "Ok", uploader |-> UploaderBuild(b),
          downloader |-> DownloaderBuild(b.local_recv_buf_len)]

Write(u, slice) ==
    LET r == BufSlicerQuePushBack(u.to_send_queue, slice)
    IN  [ok |-> r.ok, u |-> [u EXCEPT !.to_send_queue = r.q]]

\* the ratio is [num, den]; durations are whole milliseconds
Rto(u) ==
    IF u.stat.srtt = <<>> THEN DEFAULT_RTO_MS
    ELSE Max(Min((u.stat.srtt[1] * u.ratio_rto_to_one_rtt.num)
                     \div u.ratio_rto_to_one_rtt.den, MAX_RTO_MS),
             MIN_RTO_MS)

PushFrag(seq, body) ==
    [seq |-> seq, cmd |-> CmdPush, body |-> body]

AckFrag(seq) ==
    [seq |-> seq, cmd |-> CmdAck, body |-> <<>>]

\* the state of one emit_frags call: the uploader, the bundler, and which
\* sequences each of its four parts packed
EmitStart(u) ==
    [u |-> u, b |-> FragBundlerNew(u.mtu - PACKET_HDR_LEN),
     acks |-> <<>>, fast |-> <<>>, rto |-> <<>>, new |-> <<>>]

\* a piggyback loop that takes one sequence of the to-ack queue and stops
EmitAcksOnce(e) ==
    IF e.u.to_ack_queue = <<>> THEN e
    ELSE [e EXCEPT
             !.u.to_ack_queue = Tail(e.u.to_ack_queue),
             !.b = FragBundlerPack(e.b, AckFrag(Head(e.u.to_ack_queue))),
             !.u.stat.acks = e.u.stat.acks + 1,
             !.acks = Append(e.acks, Head(e.u.to_ack_queue))]

RECURSIVE EmitAcks(_)
EmitAcks(e) ==
    IF e.u.to_ack_queue = <<>> THEN e
    ELSE EmitAcks([e EXCEPT
             !.u.to_ack_queue = Tail(e.u.to_ack_queue),
             !.b = FragBundlerPack(e.b, AckFrag(Head(e.u.to_ack_queue))),
             !.u.stat.acks = e.u.stat.acks + 1,
             !.acks = Append(e.acks, Head(e.u.to_ack_queue))])

\* a resend that leaves the timer of the Push as it was
ResendKeepsTimer(e, seq) ==
    [e EXCEPT
        !.b = FragBundlerPack(e.b, PushFrag(seq, e.u.swnd.wnd[seq].body)),
        !.u.swnd.wnd[seq].is_retransmitted = TRUE,
        !.u.stat.retransmissions = e.u.stat.retransmissions + 1,
        !.u.stat.pushes = e.u.stat.pushes + 1]

\* a resend of the first byte of the body
ResendHead(e, seq) ==
    [e EXCEPT
        !.b = FragBundlerPack(e.b, PushFrag(seq, Take(e.u.swnd.wnd[seq].body, 1))),
        !.u.swnd.wnd[seq] = ToRetransmit(e.u.swnd.wnd[seq]),
        !.u.last_sent_heap[seq] = 0,
        !.u.stat.retransmissions = e.u.stat.retransmissions + 1,
        !.u.stat.pushes = e.u.stat.pushes + 1]

\* a resend that is not counted as a retransmission
ResendUncounted(e, seq) ==
    [e EXCEPT
        !.b = FragBundlerPack(e.b, PushFrag(seq, e.u.swnd.wnd[seq].body)),
        !.u.swnd.wnd[seq] = ToRetransmit(e.u.swnd.wnd[seq]),
        !.u.last_sent_heap[seq] = 0,
        !.u.stat.pushes = e.u.stat.pushes + 1]

Resend(e, seq) ==
    [e EXCEPT
        !.b = FragBundlerPack(e.b, PushFrag(seq, e.u.swnd.wnd[seq].body)),
        !.u.swnd.wnd[seq] = ToRetransmit(e.u.swnd.wnd[seq]),
        !.u.last_sent_heap[seq] = 0,
        !.u.stat.retransmissions = e.u.stat.retransmissions + 1,
        !.u.stat.pushes = e.u.stat.pushes + 1]

RECURSIVE EmitFastLoop(_, _)
EmitFastLoop(e, ks) ==
    IF ks = <<>> THEN e
    ELSE LET r == Resend(e, Head(ks))
         IN  EmitFastLoop(
                 [r EXCEPT
                     !.u.fast_retransmission_wnd =
                         FrwRetransmitted(e.u.fast_retransmission_wnd, Head(ks)),
                     !.u.stat.fast_retransmissions = e.u.stat.fast_retransmissions + 1,
                     !.fast = Append(e.fast, Head(ks))],
                 Tail(ks))

EmitFast(e) ==
    IF FrwIsEmpty(e.u.fast_retransmission_wnd) THEN e
    ELSE EmitFastLoop(e, SwndRange(e.u.swnd, e.u.fast_retransmission_wnd.start,
                                   e.u.fast_retransmission_wnd.end))

\* a timer that fires only after the timeout has been exceeded
IsDueLate(u, seq) ==
    u.last_sent_heap[seq] > Rto(u)

\* a timer that never fires
IsDueNever(u, seq) ==
    FALSE

\* whether the heap entry of seq is due: now - last_sent < rto does not hold
IsDue(u, seq) ==
    ~(u.last_sent_heap[seq] < Rto(u))

\* the orders in which the heap can hand out its due entries: oldest first,
\* entries of the same age in any order
RtoOrders(u) ==
    LET due == {k \in DOMAIN u.last_sent_heap : IsDue(u, k)}
        n == Cardinality(due)
    IN  {o \in [1..n -> due] :
            /\ \A i, j \in 1..n : i # j => o[i] # o[j]
            /\ \A i, j \in 1..n :
                   i < j => u.last_sent_heap[o[i]] >= u.last_sent_heap[o[j]]}

\* a timer loop that leaves the entries of acknowledged Pushes in the heap
RECURSIVE EmitRtoLoopKeepsStale(_, _)
EmitRtoLoopKeepsStale(e, ks) ==
    IF ks = <<>> THEN e
    ELSE IF Head(ks) \in DOMAIN e.u.swnd.wnd
    THEN LET r == Resend(e, Head(ks))
         IN  EmitRtoLoopKeepsStale(
                 [r EXCEPT !.u.stat.rto_hits = e.u.stat.rto_hits + 1,
                           !.rto = Append(e.rto, Head(ks))],
                 Tail(ks))
    ELSE EmitRtoLoopKeepsStale(e, Tail(ks))

RECURSIVE EmitRtoLoop(_, _)
EmitRtoLoop(e, ks) ==
    IF ks = <<>> THEN e
    ELSE IF Head(ks) \in DOMAIN e.u.swnd.wnd
    THEN LET r == Resend(e, Head(ks))
         IN  EmitRtoLoop(
                 [r EXCEPT !.u.stat.rto_hits = e.u.stat.rto_hits + 1,
                           !.rto = Append(e.rto, Head(ks))],
                 Tail(ks))
    ELSE EmitRtoLoop([e EXCEPT !.u.last_sent_heap = Del(e.u.last_sent_heap, Head(ks))],
                     Tail(ks))

EmitRto(e, order) ==
    IF e.u.disable_rto THEN e ELSE EmitRtoLoop(e, order)

RECURSIVE FillBody(_, _, _)
FillBody(q, body, limit) ==
    IF q.queue = <<>> \/ limit - Len(body) = 0 THEN [body |-> body, q |-> q]
    ELSE LET r == BufSlicerQueSliceFront(q, limit - Len(body))
         IN  FillBody(r.q, body \o r.v, limit)

\* a body limit that forgets the header of the Push
FragBodyLimitOfSpace(b) ==
    IF PUSH_HDR_LEN + 1 <= LoadingSpace(b)
    THEN LoadingSpace(b)
    ELSE b.each_bundle_space

FragBodyLimit(b) ==
    IF PUSH_HDR_LEN + 1 <= LoadingSpace(b)
    THEN LoadingSpace(b) - PUSH_HDR_LEN
    ELSE b.each_bundle_space - PUSH_HDR_LEN

RECURSIVE EmitNew(_)
EmitNew(e) ==
    IF e.u.to_send_queue.queue = <<>> \/ SwndIsFull(e.u.swnd) THEN e
    ELSE LET f == FillBody(e.u.to_send_queue, <<>>, FragBodyLimit(e.b))
             seq == e.u.swnd.end
         IN  EmitNew([e EXCEPT
                 !.u.to_send_queue = f.q,
                 !.b = FragBundlerPack(e.b, PushFrag(seq, f.body)),
                 !.u.last_sent_heap = Put(e.u.last_sent_heap, seq, 0),
                 !.u.swnd = SwndPushBack(e.u.swnd, SendingPushNew(f.body)),
                 !.u.stat.pushes = e.u.stat.pushes + 1,
                 !.new = Append(e.new, seq)])

\* emit_frags up to the timer loop, whose order the heap decides
EmitHead(u) ==
    EmitFast(EmitAcks(EmitStart(u)))

\* an emit_frags that sends the new Pushes before the timer loop
EmitFragsNewFirst(u, order) ==
    EmitRto(EmitNew(EmitHead(u)), order)

EmitFrags(u, order) ==
    EmitNew(EmitRto(EmitHead(u), order))

EmitPackets(u, order) ==
    LET e == EmitFrags(u, order)
        bundles == IntoBundles(e.b)
    IN  [u |-> e.u,
         packets |-> [i \in 1..Len(bundles) |->
                         PacketToBytes(e.u.local_rwnd_size % U16Mod,
                                       e.u.local_next_seq_to_receive, bundles[i])],
         acks |-> e.acks, fast |-> e.fast, rto |-> e.rto, new |-> e.new,
         too_large |-> e.b.too_large, frags |-> Flatten(bundles)]

\* on_send_available is "None", or a Weak that upgrades ("Alive") or does not
\* ("Dropped")
SetOnSendAvailable(u, observer) ==
    [u EXCEPT !.on_send_available = observer]

\* an emit that notifies whenever it leaves the to-send queue not full
UploaderEmitOnNotFull(u, order) ==
    LET Emitted(r) ==
            r @@ [notifications |->
                      IF /\ u.on_send_available = "Alive"
                         /\ ~BufSlicerQueIsFull(r.u.to_send_queue)
                      THEN 1 ELSE 0]
    IN  Emitted(EmitPackets(u, order))

\* Uploader::emit: emit_packets, then the callback; notifications counts the
\* calls of notify
UploaderEmit(u, order) ==
    LET Emitted(r) ==
            r @@ [notifications |->
                      IF /\ u.on_send_available # "None"
                         /\ BufSlicerQueIsFull(u.to_send_queue)
                         /\ ~BufSlicerQueIsFull(r.u.to_send_queue)
                         /\ u.on_send_available = "Alive"
                      THEN 1 ELSE 0]
    IN  Emitted(EmitPackets(u, order))

\* an RTT sample taken from every acknowledged Push
SetAckedLocalSeqAlways(u, seq) ==
    IF seq \notin DOMAIN u.swnd.wnd THEN u
    ELSE LET frag == u.swnd.wnd[seq]
             u1 == [u EXCEPT !.swnd = SwndRemove(u.swnd, seq)]
         IN  IF u.stat.srtt = <<>>
             THEN [u1 EXCEPT !.stat.srtt = <<frag.last_sent>>]
             ELSE [u1 EXCEPT !.stat.srtt =
                                 <<(7 * u.stat.srtt[1] + frag.last_sent) \div 8>>]

SetAckedLocalSeq(u, seq) ==
    IF seq \notin DOMAIN u.swnd.wnd THEN u
    ELSE LET frag == u.swnd.wnd[seq]
             u1 == [u EXCEPT !.swnd = SwndRemove(u.swnd, seq)]
         IN  IF frag.is_retransmitted THEN u1
             ELSE IF u.stat.srtt = <<>>
             THEN [u1 EXCEPT !.stat.srtt = <<frag.last_sent>>]
             ELSE [u1 EXCEPT !.stat.srtt =
                                 <<(7 * u.stat.srtt[1] + frag.last_sent) \div 8>>]

RECURSIVE SetAckedLocalSeqs(_, _)
SetAckedLocalSeqs(u, acked) ==
    IF acked = <<>> THEN u
    ELSE SetAckedLocalSeqs(SetAckedLocalSeq(u, Head(acked)), Tail(acked))

\* <<>> for None, <<x>> for Some(x)
RECURSIVE MaxAcked(_, _)
MaxAcked(m, acked) ==
    IF acked = <<>> THEN m
    ELSE MaxAcked(IF m = <<>> THEN <<Head(acked)>> ELSE <<SeqMax(m[1], Head(acked))>>,
                  Tail(acked))

\* an offer made whenever something is acknowledged
OffersAny(delta) ==
    delta.acked_local_seqs # <<>>

Offers(delta) ==
    LET m == MaxAcked(<<>>, delta.acked_local_seqs)
    IN  m # <<>> /\ SeqLt(delta.remote_nack, m[1])

\* a validation that looks at the first acknowledged sequence only
InvalidStateOfFirst(delta) ==
    /\ delta.acked_local_seqs # <<>>
    /\ delta.acked_local_seqs[1] = delta.remote_nack

\* the validation loop at the head of set_state
InvalidState(delta) ==
    \E i \in 1..Len(delta.acked_local_seqs) :
        delta.acked_local_seqs[i] = delta.remote_nack

\* a set_state that takes an RTT sample from every entry the nack removes
SetStateSamplesBelowNack(u, delta) ==
    IF InvalidState(delta)
    THEN [ok |-> FALSE, u |-> u]
    ELSE LET u1 == [u EXCEPT
                       !.swnd.remote_rwnd_size = delta.remote_rwnd_size,
                       !.local_next_seq_to_receive = delta.local_next_seq_to_receive,
                       !.local_rwnd_size = delta.local_rwnd_size]
             u2 == SetAckedLocalSeqs(u1, delta.acked_local_seqs)
             u3 == SetAckedLocalSeqs(u2,
                       KeysAsc(ToRemoves(KeysAsc(DOMAIN u2.swnd.wnd),
                                         delta.remote_nack)))
             m == MaxAcked(<<>>, delta.acked_local_seqs)
             u4 == IF Offers(delta)
                   THEN [u3 EXCEPT !.fast_retransmission_wnd =
                            TrySetBoundaries(u3.fast_retransmission_wnd,
                                             delta.remote_nack, m[1])]
                   ELSE u3
         IN  [ok |-> TRUE,
              u |-> [u4 EXCEPT !.to_ack_queue =
                                   u4.to_ack_queue \o delta.remote_seqs_to_ack]]

SetState(u, delta) ==
    IF InvalidState(delta)
    THEN [ok |-> FALSE, u |-> u]
    ELSE LET u1 == [u EXCEPT
                       !.swnd.remote_rwnd_size = delta.remote_rwnd_size,
                       !.local_next_seq_to_receive = delta.local_next_seq_to_receive,
                       !.local_rwnd_size = delta.local_rwnd_size]
             u2 == SetAckedLocalSeqs(u1, delta.acked_local_seqs)
             u3 == [u2 EXCEPT !.swnd = SwndRemoveBefore(u2.swnd, delta.remote_nack)]
             m == MaxAcked(<<>>, delta.acked_local_seqs)
             u4 == IF Offers(delta)
                   THEN [u3 EXCEPT !.fast_retransmission_wnd =
                            TrySetBoundaries(u3.fast_retransmission_wnd,
                                             delta.remote_nack, m[1])]
                   ELSE u3
         IN  [ok |-> TRUE,
              u |-> [u4 EXCEPT !.to_ack_queue =
                                   u4.to_ack_queue \o delta.remote_seqs_to_ack]]

\* an Instant is kept as the time since it was taken: time passing ages them all
Elapse(u, d) ==
    [u EXCEPT
        !.swnd.wnd = [k \in DOMAIN u.swnd.wnd |->
                         [u.swnd.wnd[k] EXCEPT !.last_sent = u.swnd.wnd[k].last_sent + d]],
        !.last_sent_heap = [k \in DOMAIN u.last_sent_heap |-> u.last_sent_heap[k] + d]]

----------------------------------------------------------------------------
(* Bounds of the checked instances *)

MaxThreshold == 2      \* duplicate thresholds 0..MaxThreshold
MaxQueueCap == 2       \* to_send_queue_len_cap 1..MaxQueueCap
MaxBody == 1           \* mtu = headers + MaxBody
MaxSliceLen == 2       \* written slices hold 0..MaxSliceLen bytes
MaxBytes == 3          \* bytes written in one run
MaxSetStates == 2      \* set_state calls of one run on the lone Uploader
MaxTicks == 2          \* clock advances of one run on the lone Uploader
MaxInputs == 2         \* packets handed to the lone Downloader
MaxDups == 1           \* packets delivered a second time
MaxLosses == 1         \* packets the network loses
MaxStream == 2         \* bytes written in one run of two endpoints

Endpoints == {1, 2}

Peer(e) == 3 - e

Ratio == [num |-> 3, den |-> 2]

Builder(threshold, queue_cap, swnd_cap, recv_buf_len) ==
    [local_recv_buf_len |-> recv_buf_len,
     nack_duplicate_threshold_to_activate_fast_retransmit |-> threshold,
     ratio_rto_to_one_rtt |-> Ratio,
     mtu |-> PACKET_HDR_LEN + PUSH_HDR_LEN + MaxBody,
     to_send_queue_len_cap |-> queue_cap,
     swnd_size_cap |-> swnd_cap]

\* the next n bytes the application writes: each byte is its position in the stream
NextSlice(e, n) ==
    [i \in 1..n |-> Len(accepted[e]) + i - 1]

TickSteps == {MIN_RTO_MS, DEFAULT_RTO_MS}

----------------------------------------------------------------------------
(* Bookkeeping for the fast-retransmit scenarios *)

\* run: the latest applied deltas that all offered the fast-retransmit window the
\*      same remote_nack: n of them with the greatest acked sequences nm, of which
\*      the k latest (greatest acked sequences km) came after the last emit
\* first: progress through "sequences 0 and 1 in flight, set_state(nack 0,
\*      acked [1]), emit, the same set_state again, emit" on a fresh Uploader:
\*      0 nothing acknowledged yet, 1 first set_state applied, 2 emit done,
\*      3 second set_state applied, 4 emit done, 9 something else happened
\* emitk: how many deltas of the run the last emit came after (0 once a delta follows)
\* sent: the body that each sequence carried when it was first emitted
TrackInit ==
    [run |-> [nack |-> 0, n |-> 0, nm |-> {}, k |-> 0, km |-> {}], first |-> 0,
     emitk |-> 0, sent |-> <<>>]

IsFirstDelta(delta) ==
    delta.remote_nack = 0 /\ delta.acked_local_seqs = <<1>>

TrackRun(run, delta, cap) ==
    IF ~Offers(delta) THEN TrackInit.run
    ELSE LET m == MaxAcked(<<>>, delta.acked_local_seqs)[1]
             same == run.n > 0 /\ run.nack = delta.remote_nack
         IN  [nack |-> delta.remote_nack,
              n |-> IF same THEN Min(run.n + 1, cap) ELSE 1,
              nm |-> IF same THEN run.nm \cup {m} ELSE {m},
              k |-> IF same THEN Min(run.k + 1, cap) ELSE 1,
              km |-> IF same /\ run.k > 0 THEN run.km \cup {m} ELSE {m}]

TrackFirst(first, u, delta) ==
    IF first = 0
    THEN IF IsFirstDelta(delta) /\ DOMAIN u.swnd.wnd = {0, 1} THEN 1
         ELSE IF delta.acked_local_seqs = <<>> THEN 0 ELSE 9
    ELSE IF first = 2 /\ IsFirstDelta(delta) THEN 3
    ELSE 9

TrackSetState(t, u, delta, ok) ==
    IF ~ok THEN [t EXCEPT !.run = TrackInit.run, !.emitk = 0]
    ELSE [run |-> TrackRun(t.run, delta, MaxThreshold + 2),
          first |-> TrackFirst(t.first, u, delta),
          emitk |-> 0, sent |-> t.sent]

TrackEmit(t) ==
    [run |-> [t.run EXCEPT !.k = 0, !.km = {}],
     first |-> IF t.first \in {1, 3} THEN t.first + 1 ELSE t.first,
     emitk |-> t.run.k, sent |-> t.sent]

\* the Pushes among the fragments frags that carry a sequence for the first time
RECURSIVE TrackSent(_, _)
TrackSent(sent, frags) ==
    IF frags = <<>> THEN sent
    ELSE IF Head(frags).cmd = CmdPush /\ Head(frags).seq \notin DOMAIN sent
    THEN TrackSent(Put(sent, Head(frags).seq, Head(frags).body), Tail(frags))
    ELSE TrackSent(sent, Tail(frags))

----------------------------------------------------------------------------
(* The Uploader alone, driven by an application and by deltas *)

Delta(nack, acked, rwnd, to_ack) ==
    [remote_rwnd_size |-> rwnd,
     remote_nack |-> nack,
     local_next_seq_to_receive |-> 0,
     remote_seqs_to_ack |-> to_ack,
     acked_local_seqs |-> acked,
     local_rwnd_size |-> 2]

\* what the peer controls: also sequences far from the send window
SeqVals == {0, 1, 2, I32Min}

AckLists == {<<>>, <<0>>, <<1>>, <<2>>, <<2, 1>>, <<1, I32Min>>}

FastDeltas ==
    {Delta(n, a, 2, <<>>) : n \in SeqVals, a \in AckLists}

\* what a peer that runs the protocol sends
TimerDeltas ==
    {Delta(n, a, 2, <<>>) : n \in {0, 1, 2}, a \in {<<>>, <<0>>, <<1>>}}
        \cup {Delta(0, <<>>, 2, <<0>>)}

Budget(set_states, ticks, inputs, dups, losses) ==
    [set_states |-> set_states, ticks |-> ticks, inputs |-> inputs, dups |-> dups,
     losses |-> losses]

InitOf(thresholds, queue_caps, recv_buf_lens, b) ==
    /\ \E t \in thresholds, c \in queue_caps, len \in recv_buf_lens :
           /\ up = [e \in Endpoints |-> UploaderBuild(Builder(t, c, 2, len))]
           /\ down = [e \in Endpoints |-> DownloaderBuild(len)]
    /\ net = [e \in Endpoints |-> {}]
    /\ seen = [e \in Endpoints |-> {}]
    /\ accepted = [e \in Endpoints |-> <<>>]
    /\ returned = [e \in Endpoints |-> <<>>]
    /\ ret = [op |-> "init", flip |-> 0]
    /\ budget = b

Range(f) ==
    {f[i] : i \in DOMAIN f}

\* the acknowledged sequences that are in the send window and were never resent
FreshAcked(u, acked) ==
    {q \in Range(acked) \cap DOMAIN u.swnd.wnd : ~u.swnd.wnd[q].is_retransmitted}

\* the acknowledged sequences that are in the send window and were resent
ResentAcked(u, acked) ==
    {q \in Range(acked) \cap DOMAIN u.swnd.wnd : u.swnd.wnd[q].is_retransmitted}

UpWrite ==
    \E n \in 0..MaxSliceLen :
        /\ Len(accepted[1]) + n <= MaxBytes
        /\ LET slice == NextSlice(1, n)
               r == Write(up[1], slice)
           IN  /\ up' = [up EXCEPT ![1] = r.u]
               /\ accepted' = [accepted EXCEPT
                                  ![1] = IF r.ok THEN accepted[1] \o slice ELSE accepted[1]]
               /\ ret' = [op |-> "write", ok |-> r.ok, slice |-> slice,
                          before |-> up[1], held |-> accepted[1]]
        /\ UNCHANGED <<down, net, seen, returned, track, budget>>

UpEmit ==
    \E order \in RtoOrders(EmitHead(up[1]).u) :
        LET Emitted(r) ==
                /\ up' = [up EXCEPT ![1] = r.u]
                /\ ret' = [op |-> "emit", acks |-> r.acks, fast |-> r.fast,
                           rto |-> r.rto, new |-> r.new, packed |-> ~r.too_large,
                           notifications |-> r.notifications,
                           lens |-> [i \in DOMAIN r.packets |-> Len(r.packets[i])],
                           frags |-> r.frags,
                           queued |-> [i \in DOMAIN up[1].to_send_queue.queue |->
                                          Len(up[1].to_send_queue.queue[i])],
                           stale |-> (DOMAIN up[1].last_sent_heap)
                                         \ (DOMAIN r.u.last_sent_heap),
                           due |-> {k \in DOMAIN up[1].last_sent_heap :
                                       IsDue(up[1], k)},
                           before |-> up[1], tracked |-> track,
                           after_emit |-> ret.op = "emit",
                           new_before |-> IF ret.op = "emit" THEN ret.new
                                          ELSE <<>>]
                /\ track' = [TrackEmit(track) EXCEPT
                                 !.sent = TrackSent(track.sent, r.frags)]
        IN  /\ Emitted(UploaderEmit(up[1], order))
            /\ UNCHANGED <<down, net, seen, accepted, returned, budget>>

UpSetState(deltas) ==
    \E delta \in deltas :
        /\ budget.set_states > 0
        /\ LET Applied(r) ==
                   /\ up' = [up EXCEPT ![1] = r.u]
                   /\ ret' = [op |-> "set_state", ok |-> r.ok,
                              remote_nack |-> delta.remote_nack,
                              acked_local_seqs |-> delta.acked_local_seqs,
                              remote_seqs_to_ack |-> delta.remote_seqs_to_ack,
                              removed |-> (DOMAIN up[1].swnd.wnd)
                                              \ (DOMAIN r.u.swnd.wnd),
                              resent_acked |->
                                  ResentAcked(up[1], delta.acked_local_seqs),
                              before |-> up[1]]
                   /\ track' = TrackSetState(track, up[1], delta, r.ok)
           IN  Applied(SetState(up[1], delta))
        /\ budget' = [budget EXCEPT !.set_states = budget.set_states - 1]
        /\ UNCHANGED <<down, net, seen, accepted, returned>>

UpTick ==
    \E d \in TickSteps :
        /\ budget.ticks > 0
        /\ up' = [up EXCEPT ![1] = Elapse(up[1], d)]
        /\ ret' = [op |-> "tick", d |-> d, before |-> up[1]]
        /\ budget' = [budget EXCEPT !.ticks = budget.ticks - 1]
        /\ UNCHANGED <<down, net, seen, accepted, returned, track>>

\* fast retransmission: every threshold, deltas of any content and as many as
\* the longest run that a threshold waits for, no clock
InitFast ==
    /\ InitOf(0..MaxThreshold, {2}, {2}, Budget(MaxThreshold + 1, 0, 0, 0, 0))
    /\ track = TrackInit

NextFast ==
    \/ UpWrite
    \/ UpEmit
    \/ UpSetState(FastDeltas)

SpecFast == InitFast /\ [][NextFast]_vars

\* timers: a clock, every queue capacity, deltas of a peer that runs the protocol
InitTimer ==
    /\ InitOf({0}, 1..MaxQueueCap, {2}, Budget(MaxSetStates, MaxTicks, 0, 0, 0))
    /\ track = TrackInit

NextTimer ==
    \/ UpWrite
    \/ UpEmit
    \/ UpSetState(TimerDeltas)
    \/ UpTick

SpecTimer == InitTimer /\ [][NextTimer]_vars

\* bodies: an mtu with room for one byte more, so that a body can hold bytes of
\* two slices
InitBody ==
    /\ \E c \in 1..MaxQueueCap :
           up = [e \in Endpoints |->
                    UploaderBuild([Builder(0, c, 2, 2) EXCEPT !.mtu = @ + 1])]
    /\ down = [e \in Endpoints |-> DownloaderBuild(2)]
    /\ net = [e \in Endpoints |-> {}]
    /\ seen = [e \in Endpoints |-> {}]
    /\ accepted = [e \in Endpoints |-> <<>>]
    /\ returned = [e \in Endpoints |-> <<>>]
    /\ ret = [op |-> "init", flip |-> 0]
    /\ budget = Budget(2, 1, 0, 0, 0)
    /\ track = TrackInit

NextBody ==
    \/ UpWrite
    \/ UpEmit
    \/ UpSetState(TimerDeltas)
    \/ UpTick

SpecBody == InitBody /\ [][NextBody]_vars

\* a peer that sends what it likes: any window, any nack, any acknowledgements
HostileDeltas ==
    {Delta(n, a, w, <<>>) : n \in SeqVals, a \in AckLists, w \in {0, 3}}

InitHostile ==
    /\ InitOf({1}, {2}, {2}, Budget(2, 1, 0, 0, 0))
    /\ track = TrackInit

NextHostile ==
    \/ UpWrite
    \/ UpEmit
    \/ UpSetState(HostileDeltas)
    \/ UpTick

SpecHostile == InitHostile /\ [][NextHostile]_vars

\* the application registers an observer, a dead one, or none
ObserverSet ==
    \E observer \in {"None", "Alive", "Dropped"} :
        /\ up' = [up EXCEPT ![1] = SetOnSendAvailable(up[1], observer)]
        /\ ret' = [op |-> "set_on_send_available"]
        /\ UNCHANGED <<down, net, seen, accepted, returned, track, budget>>

\* the owner of the observer drops it: the Weak of the Uploader upgrades no more
ObserverDrop ==
    /\ up[1].on_send_available = "Alive"
    /\ up' = [up EXCEPT ![1].on_send_available = "Dropped"]
    /\ ret' = [op |-> "drop"]
    /\ UNCHANGED <<down, net, seen, accepted, returned, track, budget>>

\* the observer: every queue capacity, no delta, so that one Push is in flight
InitObserver ==
    /\ InitOf({0}, 1..MaxQueueCap, {2}, Budget(0, 0, 0, 0, 0))
    /\ track = TrackInit

NextObserver ==
    \/ UpWrite
    \/ UpEmit
    \/ ObserverSet
    \/ ObserverDrop

SpecObserver == InitObserver /\ [][NextObserver]_vars

----------------------------------------------------------------------------
(* The Downloader alone, fed packets by a network and read by an application *)

\* the body the sender puts under a sequence: the stream is cut the same way on
\* every transmission
Body(seq) ==
    IF seq = 1 THEN <<1, 9>> ELSE <<seq>>

PushOf(seq) ==
    [seq |-> seq, cmd |-> CmdPush, body |-> Body(seq)]

AckOf(seq) ==
    [seq |-> seq, cmd |-> CmdAck, body |-> <<>>]

DownFrags ==
    {PushOf(s) : s \in 0..2} \cup {AckOf(0)}

\* one fragment, or two with the second one out of order, early or an Ack
FragLists ==
    {<<>>} \cup {<<f>> : f \in DownFrags}
        \cup {<<PushOf(0), PushOf(1)>>, <<PushOf(0), PushOf(2)>>,
              <<PushOf(1), PushOf(0)>>, <<PushOf(1), PushOf(2)>>,
              <<PushOf(0), AckOf(0)>>}

\* what damage leaves of a fragment: too short for a header, an unknown command,
\* a Push of length zero, a Push whose body is cut
BadFrags ==
    {BE4(0), BE4(0) \o <<7>>, BE4(1) \o <<CmdPush>> \o BE4(0),
     BE4(1) \o <<CmdPush>> \o BE4(2) \o <<1>>}

GoodPackets ==
    {PacketToBytes(2, 0, fs) : fs \in FragLists}

BadPackets ==
    {Take(PacketHeaderToBytes(2, 0), 3)}
        \cup {PacketToBytes(2, 0, fs) \o bad \o FragsToBytes(gs) :
                  fs \in {<<>>, <<PushOf(0)>>}, bad \in BadFrags,
                  gs \in {<<>>, <<PushOf(0)>>}}

DownPackets ==
    GoodPackets \cup BadPackets

\* input_packet on a packet p; again tells a second delivery from a first
Input(p, again) ==
    LET r == InputPacket(down[2], p)
    IN  /\ down' = [down EXCEPT ![2] = r.d]
        /\ ret' = [op |-> "input", ok |-> r.ok, packet |-> p, again |-> again,
                   to_ack |-> IF r.ok THEN r.state.remote_seqs_to_ack ELSE <<>>,
                   before |-> down[2]]

\* the network delivers a packet, and may keep a copy to deliver it again
DownInput ==
    \E p \in DownPackets, keep \in BOOLEAN :
        /\ budget.inputs > 0
        /\ Input(p, FALSE)
        /\ seen' = IF keep THEN [seen EXCEPT ![2] = {p}] ELSE seen
        /\ budget' = [budget EXCEPT !.inputs = budget.inputs - 1]
        /\ UNCHANGED <<up, net, accepted, returned, track>>

DownRedeliver ==
    \E p \in seen[2] :
        /\ budget.dups > 0
        /\ Input(p, TRUE)
        /\ budget' = [budget EXCEPT !.dups = budget.dups - 1]
        /\ UNCHANGED <<up, net, seen, accepted, returned, track>>

DownRecv ==
    LET r == Recv(down[2])
    IN  /\ r.some
        /\ down' = [down EXCEPT ![2] = r.d]
        /\ returned' = [returned EXCEPT ![2] = returned[2] \o r.v]
        /\ ret' = [op |-> "recv", before |-> down[2], read |-> returned[2]]
        /\ UNCHANGED <<up, net, seen, accepted, track, budget>>

DownRecvMax ==
    LET r == RecvMax(down[2], 1)
    IN  /\ r.some
        /\ down' = [down EXCEPT ![2] = r.d]
        /\ returned' = [returned EXCEPT ![2] = returned[2] \o r.v]
        /\ ret' = [op |-> "recv_max", before |-> down[2], read |-> returned[2]]
        /\ UNCHANGED <<up, net, seen, accepted, track, budget>>

InitDown ==
    /\ InitOf({0}, {2}, {2}, Budget(0, 0, MaxInputs, MaxDups, 0))
    /\ track = TrackInit

NextDown ==
    \/ DownInput
    \/ DownRedeliver
    \/ DownRecv
    \/ DownRecvMax

SpecDown == InitDown /\ [][NextDown]_vars

----------------------------------------------------------------------------
(* Two endpoints over a datagram network that loses, duplicates and reorders *)

\* net[e] holds the packets on their way to endpoint e

\* the steps leave ret and track to the specification that takes them

\* the application of endpoint 1 writes the next bytes of its stream
WriteStep ==
    \E n \in 1..MaxSliceLen :
        /\ Len(accepted[1]) + n <= MaxStream
        /\ LET slice == NextSlice(1, n)
               r == Write(up[1], slice)
           IN  /\ r.ok
               /\ up' = [up EXCEPT ![1] = r.u]
               /\ accepted' = [accepted EXCEPT ![1] = accepted[1] \o slice]
        /\ UNCHANGED <<down, net, seen, returned, budget>>

\* emit at endpoint e: the packets go to the network towards the peer
EmitStep(e) ==
    \E order \in RtoOrders(EmitHead(up[e]).u) :
        LET r == UploaderEmit(up[e], order)
        IN  /\ up' = [up EXCEPT ![e] = r.u]
            /\ net' = [net EXCEPT ![Peer(e)] = net[Peer(e)] \cup Range(r.packets)]
            /\ UNCHANGED <<down, seen, accepted, returned, budget>>

\* the host of endpoint e gives a packet to the Downloader and the delta to the
\* Uploader; dup: the network keeps a copy that it delivers again
DeliverStep(e) ==
    \E p \in net[e], dup \in BOOLEAN :
        /\ dup => budget.dups > 0
        /\ LET r == InputPacket(down[e], p)
           IN  /\ down' = [down EXCEPT ![e] = r.d]
               /\ up' = IF r.ok THEN [up EXCEPT ![e] = SetState(up[e], r.state).u]
                        ELSE up
        /\ net' = IF dup THEN net ELSE [net EXCEPT ![e] = net[e] \ {p}]
        /\ budget' = IF dup THEN [budget EXCEPT !.dups = budget.dups - 1] ELSE budget
        /\ UNCHANGED <<seen, accepted, returned>>

LoseStep(e) ==
    \E p \in net[e] :
        /\ budget.losses > 0
        /\ net' = [net EXCEPT ![e] = net[e] \ {p}]
        /\ budget' = [budget EXCEPT !.losses = budget.losses - 1]
        /\ UNCHANGED <<up, down, seen, accepted, returned>>

RecvStep(e) ==
    LET r == Recv(down[e])
    IN  /\ r.some
        /\ down' = [down EXCEPT ![e] = r.d]
        /\ returned' = [returned EXCEPT ![e] = returned[e] \o r.v]
        /\ UNCHANGED <<up, net, seen, accepted, budget>>

Quiet ==
    UNCHANGED <<ret, track>>

AppWrite ==
    WriteStep /\ Quiet

Emit(e) ==
    EmitStep(e) /\ Quiet

Deliver(e) ==
    DeliverStep(e) /\ Quiet

Lose(e) ==
    LoseStep(e) /\ Quiet

AppRecv(e) ==
    RecvStep(e) /\ Quiet

\* time passes at both endpoints
Tick ==
    /\ budget.ticks > 0
    /\ up' = [e \in Endpoints |-> Elapse(up[e], DEFAULT_RTO_MS)]
    /\ budget' = [budget EXCEPT !.ticks = budget.ticks - 1]
    /\ UNCHANGED <<down, net, seen, accepted, returned>>
    /\ Quiet

Init ==
    /\ InitOf({1}, {2}, {1, 2}, Budget(0, MaxTicks, 0, MaxDups, MaxLosses))
    /\ track = TrackInit

Next ==
    \/ AppWrite
    \/ \E e \in Endpoints : Emit(e)
    \/ \E e \in Endpoints : Deliver(e)
    \/ \E e \in Endpoints : Lose(e)
    \/ \E e \in Endpoints : AppRecv(e)
    \/ Tick

Spec == Init /\ [][Next]_vars

----------------------------------------------------------------------------
(* The two endpoints run for ever: every host keeps calling emit, gives every
   packet and delta on, and reads what is ready; the network loses and
   duplicates finitely often; the clock advances while the endpoints are idle
   and a retransmission timer has still to run out.

   Every step records itself in ret, and track.todo holds the calls that would
   change the state, so that what is enabled is read off the state. *)

\* whether emit at an Uploader u has anything to send
EmitSends(u) ==
    \E order \in RtoOrders(EmitHead(u).u) : UploaderEmit(u, order).u # u

\* nothing is in flight, nothing is to be sent and nothing is to be read
Idle(u, d, n) ==
    \A e \in Endpoints :
        n[e] = {} /\ d[e].recv_buf.sorted = <<>> /\ ~EmitSends(u[e])

\* some Push waits for its retransmission timer
TimerPending(u) ==
    \E e \in Endpoints : \E q \in DOMAIN u[e].swnd.wnd :
        u[e].swnd.wnd[q].last_sent < Rto(u[e])

Todo(u, d, n) ==
    {<<"emit", e>> : e \in {x \in Endpoints : EmitSends(u[x])}}
        \cup {<<"deliver", e>> : e \in {x \in Endpoints : n[x] # {}}}
        \cup {<<"recv", e>> : e \in {x \in Endpoints : d[x].recv_buf.sorted # <<>>}}
        \cup (IF Idle(u, d, n) /\ TimerPending(u) THEN {<<"tick", 0>>} ELSE {})

Mark(op, e) ==
    /\ ret' = [op |-> op, e |-> e, flip |-> 1 - ret.flip]
    /\ track' = [todo |-> Todo(up', down', net')]

LiveWrite ==
    WriteStep /\ Mark("write", 1)

LiveEmit(e) ==
    <<"emit", e>> \in track.todo /\ EmitStep(e) /\ Mark("emit", e)

LiveDeliver(e) ==
    <<"deliver", e>> \in track.todo /\ DeliverStep(e) /\ Mark("deliver", e)

LiveLose(e) ==
    LoseStep(e) /\ Mark("lose", e)

LiveRecv(e) ==
    <<"recv", e>> \in track.todo /\ RecvStep(e) /\ Mark("recv", e)

LiveTick ==
    /\ <<"tick", 0>> \in track.todo
    /\ up' = [e \in Endpoints |-> Elapse(up[e], DEFAULT_RTO_MS)]
    /\ UNCHANGED <<down, net, seen, accepted, returned, budget>>
    /\ Mark("tick", 0)

LiveInit ==
    /\ InitOf({1}, {2}, {1, 2}, Budget(0, 0, 0, MaxDups, MaxLosses))
    /\ track = [todo |-> Todo(up, down, net)]

LiveNext ==
    \/ LiveWrite
    \/ \E e \in Endpoints : LiveEmit(e)
    \/ \E e \in Endpoints : LiveDeliver(e)
    \/ \E e \in Endpoints : LiveLose(e)
    \/ \E e \in Endpoints : LiveRecv(e)
    \/ LiveTick

\* a step of the call a, which is enabled exactly when a is in track.todo
Served(a) ==
    a \in track.todo /\ ret' = [op |-> a[1], e |-> a[2], flip |-> 1 - ret.flip]

Fairness ==
    /\ \A e \in Endpoints : WF_ret(Served(<<"emit", e>>))
    /\ \A e \in Endpoints : WF_ret(Served(<<"deliver", e>>))
    /\ \A e \in Endpoints : WF_ret(Served(<<"recv", e>>))
    /\ WF_ret(Served(<<"tick", 0>>))

LiveSpec == LiveInit /\ [][LiveNext]_vars /\ Fairness

----------------------------------------------------------------------------
(* Claims about the Uploader alone *)

Threshold(u) ==
    u.fast_retransmission_wnd.duplicate_threshold.dup_threshold_to_activate

\* the sequences span less than 2^31: one of them has all the others ahead of it
\* by less than 2^31, so that the wrap-around order is an order on them
Comparable(S) ==
    \E b \in S : \A x \in S : SeqSub(x, b) >= 0

\* C4 as stated: after a set_state that was applied, no send-window entry has a
\* sequence below the delta's remote_nack, whatever remote_nack is.
C4_RemovedBelowAnyNack ==
    ret.op = "set_state" /\ ret.ok
        => \A q \in DOMAIN up[1].swnd.wnd : ~SeqLt(q, ret.remote_nack)

\* C4 amended: when remote_nack and the sequences of the send window span less
\* than 2^31, a set_state that is applied removes every send-window entry whose
\* sequence is below remote_nack, acknowledged in acked_local_seqs or not.
C4_RemovedBelowNack ==
    (ret.op = "set_state" /\ ret.ok
       /\ Comparable((DOMAIN ret.before.swnd.wnd) \cup {ret.remote_nack}))
     => \A q \in DOMAIN ret.before.swnd.wnd :
            SeqLt(q, ret.remote_nack) => q \notin DOMAIN up[1].swnd.wnd

\* sequences 0 and 1 were in flight and remote_nack 2 alone removed both
C4_Witness ==
    /\ ret.op = "set_state" /\ ret.ok
    /\ ret.remote_nack = 2 /\ ret.acked_local_seqs = <<>>
    /\ ret.removed = {0, 1}

\* the send-window entries from nack on that lie below every one of ms
RunRange(u, nack, ms) ==
    {q \in DOMAIN u.swnd.wnd : SeqLe(nack, q) /\ \A m \in ms : SeqLt(q, m)}

C6_SecondDeltaResends ==
    [][(ret'.op = "emit" /\ Threshold(up[1]) = 1)
        => /\ track.first = 1 => 0 \notin Range(ret'.fast)
           /\ track.first = 3 =>
                  /\ 0 \in Range(ret'.fast)
                  /\ up'[1].stat.fast_retransmissions
                         = up[1].stat.fast_retransmissions + 1]_vars

\* C6 amended: with threshold 1 and sequences 0 and 1 in flight, the emit after
\* the first set_state(remote_nack 0, acked [1]) already resends sequence 0 and
\* counts one fast retransmission, and so does the emit after the second one.
C6_FirstDeltaResends ==
    (ret.op = "emit" /\ Threshold(ret.before) = 1 /\ ret.tracked.first \in {1, 3})
     => /\ ret.fast = <<0>>
        /\ up[1].stat.fast_retransmissions
               = ret.before.stat.fast_retransmissions + 1

\* both emits of the scenario are done and each resent sequence 0
C6_Witness ==
    /\ track.first = 4
    /\ Threshold(up[1]) = 1
    /\ up[1].stat.fast_retransmissions = 2

\* C7: an emit resends through the timer exactly the send-window entries whose
\* last transmission is at least rto() old (unless the same emit has just resent
\* them as fast retransmissions), and none that is younger.
C7_RtoResend ==
    ret.op = "emit"
     => \A q \in DOMAIN ret.before.swnd.wnd :
            q \in Range(ret.rto)
                <=> /\ ret.before.swnd.wnd[q].last_sent >= Rto(ret.before)
                    /\ q \notin Range(ret.fast)

\* a Push was resent by the timer under a timeout computed from srtt
C7_Witness ==
    /\ ret.op = "emit" /\ ret.rto # <<>>
    /\ up[1].stat.srtt # <<>>

\* C8: srtt changes only in a set_state that is applied and acknowledges in
\* acked_local_seqs a sequence of the send window that was never resent; an entry
\* marked retransmitted stays marked, and every entry an emit resends is marked.
C8_SrttFromFreshAcks ==
    ret.op # "init"
     => /\ up[1].stat.srtt # ret.before.stat.srtt
             => /\ ret.op = "set_state" /\ ret.ok
                /\ FreshAcked(ret.before, ret.acked_local_seqs) # {}
        /\ \A q \in (DOMAIN ret.before.swnd.wnd) \cap (DOMAIN up[1].swnd.wnd) :
               ret.before.swnd.wnd[q].is_retransmitted => up[1].swnd.wnd[q].is_retransmitted
        /\ ret.op = "emit"
             => \A q \in Range(ret.fast) \cup Range(ret.rto) :
                    up[1].swnd.wnd[q].is_retransmitted

\* the ACK of a resent Push was applied and srtt is still unset
C8_Witness ==
    /\ ret.op = "set_state" /\ ret.ok
    /\ ret.resent_acked # {}
    /\ up[1].stat.srtt = <<>>

\* C9: write returns the slice exactly when the queue holds to_send_queue_len_cap
\* slices, and then changes nothing; otherwise the slice is queued (an empty one
\* is accepted and dropped); the queue never holds more than the cap.
C9_WriteFull ==
    /\ ret.op = "write"
         => LET q == ret.before.to_send_queue
            IN  /\ ret.ok <=> Len(q.queue) # q.len_cap
                /\ ~ret.ok => up[1] = ret.before /\ accepted[1] = ret.held
                /\ ret.ok => up[1].to_send_queue.queue
                                  = IF ret.slice = <<>> THEN q.queue
                                    ELSE Append(q.queue, ret.slice)
    /\ Len(up[1].to_send_queue.queue) <= up[1].to_send_queue.len_cap

\* with cap 1 a write was returned because one slice was queued already
C9_Witness ==
    /\ ret.op = "write" /\ ~ret.ok /\ ret.slice # <<>>
    /\ up[1].to_send_queue.len_cap = 1
    /\ Len(up[1].to_send_queue.queue) = 1

\* C14: set_state fails iff one of the acknowledged sequences of the delta equals
\* its remote_nack, and a set_state that fails leaves the whole Uploader as it
\* was: send window, remote rwnd, local nack and rwnd, srtt, to-ack queue,
\* fast-retransmit window and counter.
C14_InvalidStateChangesNothing ==
    ret.op = "set_state"
     => /\ ret.ok = (ret.remote_nack \notin Range(ret.acked_local_seqs))
        /\ ~ret.ok => up[1] = ret.before

\* a delta whose second acknowledged sequence is its remote_nack was refused by an
\* Uploader that has a Push in flight and has not heard of the remote window yet
C14_Witness ==
    /\ ret.op = "set_state" /\ ~ret.ok
    /\ Len(ret.acked_local_seqs) = 2
    /\ ret.acked_local_seqs[2] = ret.remote_nack
    /\ DOMAIN up[1].swnd.wnd # {}
    /\ up[1].swnd.remote_rwnd_size = 0

C16_PacketsWithinMtu ==
    ret.op = "emit"
        => /\ ret.packed
           /\ \A i \in DOMAIN ret.lens : ret.lens[i] <= up[1].mtu

\* an emit has returned ACKs, a Push resent by the timer and a new Push, in more
\* than one packet, one of them as long as the mtu
C16_Witness ==
    /\ ret.op = "emit"
    /\ ret.acks # <<>> /\ ret.rto # <<>> /\ ret.new # <<>>
    /\ Len(ret.lens) > 1
    /\ \E i \in DOMAIN ret.lens : ret.lens[i] = up[1].mtu

\* C19: an emit calls notify once if an observer that is alive is registered, the
\* to-send queue was full when the emit started and is not full when it ends, and
\* not at all otherwise, a dropped observer included; the emit leaves the
\* registration as it was; no other operation calls notify.
C19_NotifiedOnceWhenNoLongerFull ==
    [][/\ ret'.op = "emit"
           => /\ ret'.notifications =
                     IF /\ up[1].on_send_available = "Alive"
                        /\ Len(up[1].to_send_queue.queue) = up[1].to_send_queue.len_cap
                        /\ Len(up'[1].to_send_queue.queue) < up'[1].to_send_queue.len_cap
                     THEN 1 ELSE 0
              /\ up'[1].on_send_available = up[1].on_send_available
       /\ ret'.op # "emit" => "notifications" \notin DOMAIN ret']_vars

\* an emit has taken the only slice of a full to-send queue and has notified the
\* observer
C19_Witness ==
    /\ ret.op = "emit" /\ ret.notifications = 1
    /\ ret.new # <<>>
    /\ up[1].to_send_queue.queue = <<>>
    /\ up[1].on_send_available = "Alive"

----------------------------------------------------------------------------
(* Claims about the Downloader alone *)

\* the sequences of the Pushes that the Downloader reads from the fragments b
RECURSIVE FragPushes(_)
FragPushes(b) ==
    IF b = <<>> THEN <<>>
    ELSE LET hdr == FragHeaderFromBytes(b)
         IN  IF ~hdr.ok THEN <<>>
             ELSE IF hdr.cmd = CmdAck THEN FragPushes(hdr.rest)
             ELSE IF hdr.len > Len(hdr.rest) THEN <<>>
             ELSE <<hdr.seq>> \o FragPushes(Drop(hdr.rest, hdr.len))

PacketPushes(p) ==
    IF Len(p) < PACKET_HDR_LEN THEN <<>> ELSE FragPushes(Drop(p, PACKET_HDR_LEN))

\* whether every fragment of b decodes, as Packet::from_slice requires
RECURSIVE FragsWellFormed(_)
FragsWellFormed(b) ==
    IF b = <<>> THEN TRUE
    ELSE LET hdr == FragHeaderFromBytes(b)
         IN  /\ hdr.ok
             /\ hdr.len <= Len(hdr.rest)
             /\ FragsWellFormed(Drop(hdr.rest, hdr.len))

WellFormed(p) ==
    Len(p) >= PACKET_HDR_LEN /\ FragsWellFormed(Drop(p, PACKET_HDR_LEN))

\* the bytes that are ready to be read, in the order recv returns them
Ready(d) ==
    Flatten(d.leftover) \o Flatten(d.recv_buf.sorted)

\* C3 as stated: delivering a packet a second time does not move rwnd.start back,
\* keeps the bytes that are ready to be read, and schedules an ACK for every Push
\* of the packet.
C3_RedeliveryAcksAll ==
    [][(ret'.op = "input" /\ ret'.again)
        => /\ SeqLe(down[2].recv_buf.rwnd.start, down'[2].recv_buf.rwnd.start)
           /\ IsPrefix(Ready(down[2]), Ready(down'[2]))
           /\ Range(PacketPushes(ret'.packet)) \subseteq Range(ret'.to_ack)]_vars

\* C3 amended: delivering a packet a second time does not move rwnd.start back,
\* keeps the bytes that are ready to be read in their order (it may append to
\* them), and schedules an ACK for every Push of the packet that is not beyond the
\* end of the receive window (TooEarly).
C3_RedeliveryAcksUnlessTooEarly ==
    (ret.op = "input" /\ ret.again)
     => /\ SeqLe(ret.before.recv_buf.rwnd.start, down[2].recv_buf.rwnd.start)
        /\ IsPrefix(Ready(ret.before), Ready(down[2]))
        /\ \A s \in Range(PacketPushes(ret.packet)) :
               RwndLocation(ret.before.recv_buf.rwnd, s) # "TooEarly"
                   => s \in Range(ret.to_ack)

\* a packet delivered again: one of its Pushes was acknowledged again, another one
\* was beyond the window and was not
C3_Witness ==
    /\ ret.op = "input" /\ ret.again
    /\ ret.to_ack # <<>>
    /\ ~(Range(PacketPushes(ret.packet)) \subseteq Range(ret.to_ack))

\* C10: a packet with a malformed part at any position is rejected as a whole:
\* input_packet returns the Decoding error and leaves the receive window, the
\* ready queue and every counter but decoding_errors as they were.
C10_MalformedRejected ==
    [][(ret'.op = "input" /\ ~WellFormed(ret'.packet))
        => /\ ~ret'.ok
           /\ down'[2] = [down[2] EXCEPT !.stat.decoding_errors =
                                             down'[2].stat.decoding_errors]]_vars

\* a packet whose second fragment is malformed was accepted: its first fragment,
\* a Push, is to be acknowledged and has moved the receive window
C10_Witness ==
    /\ ret.op = "input" /\ ~WellFormed(ret.packet)
    /\ ret.ok /\ ret.to_ack # <<>>
    /\ down[2].stat.decoding_errors > 0
    /\ down[2].stat.pushes > 0

----------------------------------------------------------------------------
(* Claims about two connected endpoints *)

\* C1: at every point of every run over a network that loses, duplicates and
\* reorders packets, the bytes the receiver's Downloader has returned so far are a
\* prefix of the bytes the sender's Uploader.write has accepted so far.
C1_ReturnedIsPrefix ==
    IsPrefix(returned[2], accepted[1])

\* every byte written has been returned although a packet was lost, another one
\* was delivered twice and a Push had to be sent again
C1_Witness ==
    /\ Len(accepted[1]) = MaxStream
    /\ returned[2] = accepted[1]
    /\ budget.losses < MaxLosses
    /\ budget.dups < MaxDups
    /\ up[1].stat.retransmissions > 0

\* C2: when packets keep being delivered, deltas applied, emit called as time
\* advances and the ready queue read, every byte that Uploader.write accepted is
\* eventually returned by the peer's Downloader, and a send window that holds
\* Pushes eventually becomes empty.
C2_EventuallyReturned ==
    /\ \A n \in 1..MaxStream :
           (Len(accepted[1]) >= n)
               ~> (Len(returned[2]) >= n /\ IsPrefix(returned[2], accepted[1]))
    /\ (DOMAIN up[1].swnd.wnd # {}) ~> (DOMAIN up[1].swnd.wnd = {})

\* everything written has arrived and the send window is empty, after a loss
\* that only the retransmission timer repaired
C2_Witness ==
    /\ Len(accepted[1]) = MaxStream
    /\ returned[2] = accepted[1]
    /\ DOMAIN up[1].swnd.wnd = {}
    /\ budget.losses < MaxLosses
    /\ up[1].stat.rto_hits > 0

----------------------------------------------------------------------------
(* More claims about the Downloader alone *)

\* C11: of the Pushes of a packet the Downloader schedules for ACK exactly those
\* that are not beyond the end of the receive window (InRecvWindow,
\* AtRecvWindowStart, TooLate), in their order; a packet whose Pushes are all
\* TooEarly stores nothing and leaves rwnd.start and the capacity as they were.
C11_AckedUnlessTooEarly ==
    ret.op = "input"
     => /\ ret.to_ack =
               SelectSeq(PacketPushes(ret.packet),
                         LAMBDA s : RwndLocation(ret.before.recv_buf.rwnd, s) # "TooEarly")
        /\ (\A s \in Range(PacketPushes(ret.packet)) :
                RwndLocation(ret.before.recv_buf.rwnd, s) = "TooEarly")
               => down[2].recv_buf = ret.before.recv_buf

\* a packet was handled of which one Push was TooEarly and is not to be
\* acknowledged, and another one was TooLate and is
C11_Witness ==
    /\ ret.op = "input" /\ ret.ok
    /\ \E s \in Range(PacketPushes(ret.packet)) :
           /\ RwndLocation(down[2].recv_buf.rwnd, s) = "TooEarly"
           /\ s \notin Range(ret.to_ack)
    /\ \E s \in Range(ret.to_ack) :
           /\ RwndLocation(down[2].recv_buf.rwnd, s) = "TooLate"
           /\ down[2].stat.late_pushes > 0

\* C13 as stated: the size of the receive window, the out-of-order entries it
\* stores and the slices in the ready queue add up to the length the receive
\* buffer was built with.
C13_CapacityCountsStored ==
    \A e \in Endpoints :
        down[e].recv_buf.rwnd.size + Cardinality(DOMAIN down[e].recv_buf.rwnd.wnd)
            + Len(down[e].recv_buf.sorted) = down[e].recv_buf.len

\* C13 amended: the size of the receive window and the slices in the ready queue
\* add up to the length the receive buffer was built with; the out-of-order
\* entries the window stores are within its size and take nothing from it.
C13_CapacityAndReady ==
    \A e \in Endpoints :
        /\ down[e].recv_buf.rwnd.size + Len(down[e].recv_buf.sorted)
               = down[e].recv_buf.len
        /\ Cardinality(DOMAIN down[e].recv_buf.rwnd.wnd) <= down[e].recv_buf.rwnd.size

\* after slices were taken in order and read, the window stores an out-of-order
\* entry, of which the sequence before it is still missing
C13_Witness ==
    /\ returned[2] # <<>>
    /\ DOMAIN down[2].recv_buf.rwnd.wnd # {}
    /\ down[2].recv_buf.rwnd.start \notin DOMAIN down[2].recv_buf.rwnd.wnd
    /\ down[2].recv_buf.rwnd.size = down[2].recv_buf.len

----------------------------------------------------------------------------
(* The utilities alone: a run applies one of them, once, to inputs of its choice *)

MaxWindow == 2         \* receive windows of size 0..MaxWindow
MaxFrags == 2          \* fragments of an encoded packet

\* sequence numbers near zero, near the middle and near the end of u32
EdgeSeqs ==
    {-2, -1, 0, 1, 2, 3, I32Max - 1, I32Max, I32Min, I32Min + 1}

\* Rwnd::location of seq in a window [start, start + size)
LocationStep ==
    \E start \in {-1, 0, 1, I32Max, I32Min}, size \in 0..MaxWindow, seq \in EdgeSeqs :
        LET w == [RwndNew(size) EXCEPT !.start = start]
        IN  /\ ret.op = "init"
            /\ ret' = [op |-> "location", w |-> w, seq |-> seq,
                       location |-> RwndLocation(w, seq)]
            /\ UNCHANGED <<up, down, net, seen, accepted, returned, track, budget>>

\* Builder::build on an mtu around the least one and a receive buffer length
\* around the largest one
BuildStep ==
    \E mtu \in {PACKET_HDR_LEN + ACK_HDR_LEN, PACKET_HDR_LEN + PUSH_HDR_LEN,
                PACKET_HDR_LEN + PUSH_HDR_LEN + 1, PACKET_HDR_LEN + PUSH_HDR_LEN + 2},
       len \in {0, MaxWindow, U16Mod - 1, U16Mod} :
        LET b == [Builder(0, 1, 2, len) EXCEPT !.mtu = mtu]
        IN  /\ ret.op = "init"
            /\ ret' = [op |-> "build", b |-> b, r |-> BuilderBuild(b)]
            /\ UNCHANGED <<up, down, net, seen, accepted, returned, track, budget>>

\* valid fragments: an Ack, or a Push with a body that is not empty; one of the
\* bodies reads as the header of an Ack
CodecFrags ==
    {[seq |-> q, cmd |-> CmdAck, body |-> <<>>] : q \in {0, -1, I32Min}}
        \cup {[seq |-> q, cmd |-> CmdPush, body |-> body] :
                  q \in {0, -1, I32Min}, body \in {<<7>>, <<255, 0>>, <<0, 0, 0, 0, 1>>}}

\* Packet::append_to into a writer with room, then Packet::from_slice
CodecStep ==
    \E rwnd \in {0, 258, U16Mod - 1}, nack \in {0, -1, I32Min},
       frags \in UNION {[1..n -> CodecFrags] : n \in 0..MaxFrags} :
        /\ ret.op = "init"
        /\ ret' = [op |-> "codec", rwnd |-> rwnd, nack |-> nack, frags |-> frags,
                   decoded |-> PacketFromSlice(PacketToBytes(rwnd, nack, frags))]
        /\ UNCHANGED <<up, down, net, seen, accepted, returned, track, budget>>

\* Seq32::cmp of two sequence numbers
CmpStep ==
    \E a \in EdgeSeqs, b \in EdgeSeqs :
        /\ ret.op = "init"
        /\ ret' = [op |-> "cmp", a |-> a, b |-> b, ord |-> SeqCmp(a, b)]
        /\ UNCHANGED <<up, down, net, seen, accepted, returned, track, budget>>

InitUtils ==
    /\ InitOf({0}, {1}, {1}, Budget(0, 0, 0, 0, 0))
    /\ track = TrackInit

NextUtils ==
    \/ LocationStep
    \/ BuildStep
    \/ CodecStep
    \/ CmpStep

SpecUtils == InitUtils /\ [][NextUtils]_vars

----------------------------------------------------------------------------
(* Claims about the utilities *)

\* C12 as stated: for every window, capacity 0 included, and every seq, the
\* location is TooLate iff seq < start, TooEarly iff seq >= start + capacity,
\* AtRecvWindowStart iff seq = start, and InRecvWindow otherwise.
C12_LocationAsStated ==
    ret.op = "location"
        => LET late == SeqLt(ret.seq, ret.w.start)
               early == ~SeqLt(ret.seq, AddUsize(ret.w.start, ret.w.size))
               at == ret.seq = ret.w.start
           IN  /\ (ret.location = "TooLate") = late
               /\ (ret.location = "TooEarly") = early
               /\ (ret.location = "AtRecvWindowStart") = at
               /\ (ret.location = "InRecvWindow") = (~late /\ ~early /\ ~at)

\* C12 amended: the location is TooLate iff seq < start; otherwise it is TooEarly
\* iff seq >= start + capacity, so that with capacity 0 a seq equal to start is
\* TooEarly; otherwise it is AtRecvWindowStart iff seq = start, and InRecvWindow
\* if none of these.
C12_LocationInOrder ==
    ret.op = "location"
        => LET late == SeqLt(ret.seq, ret.w.start)
               early == ~late /\ ~SeqLt(ret.seq, AddUsize(ret.w.start, ret.w.size))
               at == ~late /\ ~early /\ ret.seq = ret.w.start
           IN  /\ (ret.location = "TooLate") = late
               /\ (ret.location = "TooEarly") = early
               /\ (ret.location = "AtRecvWindowStart") = at
               /\ (ret.location = "InRecvWindow") = (~late /\ ~early /\ ~at)

\* a full window, of capacity 0, was asked for the sequence at its start and
\* answered TooEarly
C12_Witness ==
    /\ ret.op = "location"
    /\ ret.w.size = 0 /\ ret.seq = ret.w.start
    /\ ret.location = "TooEarly"

\* C17: building an endpoint returns MtuTooSmall when the mtu is below
\* PACKET_HDR_LEN + max(ACK_HDR_LEN, PUSH_HDR_LEN + 1), RecvBufTooLarge when
\* local_recv_buf_len does not fit in u16, and builds nothing in either case;
\* every other configuration builds an Uploader and a Downloader.
C17_BuildErrors ==
    ret.op = "build"
        => ret.r.result =
               IF ret.b.mtu < PACKET_HDR_LEN + Max(ACK_HDR_LEN, PUSH_HDR_LEN + 1)
               THEN "MtuTooSmall"
               ELSE IF ret.b.local_recv_buf_len >= U16Mod THEN "RecvBufTooLarge"
               ELSE "Ok"

\* a configuration with a sufficient mtu and a receive buffer length of 2^16 was
\* given to build, which has returned no value: an assertion has failed
C17_Witness ==
    /\ ret.op = "build"
    /\ MtuIsEnough(ret.b.mtu)
    /\ ret.b.local_recv_buf_len = U16Mod
    /\ ret.r.result = "panic"

\* C18: decoding the bytes of an encoded packet of valid fragments succeeds,
\* consumes the bytes exactly and yields the rwnd and the nack of the header and
\* the fragments in their order, each with its sequence, command and body.
C18_DecodeEncode ==
    ret.op = "codec"
        => /\ ret.decoded.ok
           /\ ret.decoded.rest = <<>>
           /\ ret.decoded.rwnd = ret.rwnd
           /\ ret.decoded.nack = ret.nack
           /\ ret.decoded.frags = ret.frags

\* a packet went through the codec with an rwnd of two bytes, a nack past the
\* middle of u32, an Ack, and a Push whose body reads as the header of an Ack
C18_Witness ==
    /\ ret.op = "codec" /\ ret.decoded.ok
    /\ ret.rwnd = 258 /\ ret.nack = I32Min
    /\ Len(ret.frags) = 2
    /\ ret.frags[1].cmd = CmdPush /\ ret.frags[1].body = <<0, 0, 0, 0, 1>>
    /\ ret.frags[2].cmd = CmdAck /\ ret.frags[2].seq = -1

\* C20 as stated: a < b iff (b - a) mod 2^32 lies in (0, 2^31]. A u32 is kept in
\* two's complement, so that the difference lies in (0, 2^31) iff it is positive
\* and is 2^31 iff it is the least value.
C20_LessIffWithinHalf ==
    ret.op = "cmp"
        => (ret.ord = "Less")
               = (SeqSub(ret.b, ret.a) > 0 \/ SeqSub(ret.b, ret.a) = I32Min)

\* C20 amended: a < b iff (b - a) mod 2^32 lies in (0, 2^31), or is exactly 2^31
\* and a is the larger of the two as u32; of two sequences 2^31 apart the one
\* that is smaller as u32 is the greater one.
C20_LessIffWithinHalfOrAbove ==
    ret.op = "cmp"
        => (ret.ord = "Less")
               = \/ SeqSub(ret.b, ret.a) > 0
                  \/ (SeqSub(ret.b, ret.a) = I32Min /\ ret.a < 0)

\* 0 was compared with 2^31 and found greater
C20_Witness ==
    /\ ret.op = "cmp"
    /\ ret.a = 0 /\ ret.b = I32Min
    /\ ret.ord = "Greater"

----------------------------------------------------------------------------
(* More claims about two connected endpoints *)

\* C21: every packet that an emit hands to the network carries the
\* local_rwnd_size and the local_next_seq_to_receive that the Uploader holds;
\* these are the length of the receive buffer and 0 until a packet has been
\* handled, they change only when the Downloader has handled a packet, and they
\* are then the size and the start of its receive window right after that packet.
C21_HeaderOfLatestDelta ==
    [][\A e \in Endpoints :
           /\ \A p \in net'[Peer(e)] \ net[Peer(e)] :
                  /\ PacketHeaderFromBytes(p).rwnd = up[e].local_rwnd_size
                  /\ PacketHeaderFromBytes(p).nack = up[e].local_next_seq_to_receive
           /\ down[e].stat.packets = 0
                  => /\ up[e].local_rwnd_size = down[e].recv_buf.len
                     /\ up[e].local_next_seq_to_receive = 0
           /\ IF down'[e].stat.packets # down[e].stat.packets
              THEN /\ up'[e].local_rwnd_size = down'[e].recv_buf.rwnd.size
                   /\ up'[e].local_next_seq_to_receive = down'[e].recv_buf.rwnd.start
              ELSE /\ up'[e].local_rwnd_size = up[e].local_rwnd_size
                   /\ up'[e].local_next_seq_to_receive
                          = up[e].local_next_seq_to_receive]_vars

\* endpoint 2 has sent a packet that tells the window it had right after the
\* first Push, and has since read the Push
C21_Witness ==
    /\ \E p \in net[1] :
           /\ PacketHeaderFromBytes(p).nack = 1
           /\ PacketHeaderFromBytes(p).rwnd = 1
    /\ down[2].recv_buf.len = 2
    /\ up[2].local_rwnd_size = 1
    /\ down[2].recv_buf.rwnd.size = 2

----------------------------------------------------------------------------
(* Claims about what one emit of the Uploader returns *)

\* the part of emit_frags that packed the Push at position i of the fragments
\* of the last emit: 1 fast retransmission, 2 timer, 3 new, 0 none of them
PartOf(i) ==
    IF ret.frags[i].seq \in Range(ret.fast) THEN 1
    ELSE IF ret.frags[i].seq \in Range(ret.rto) THEN 2
    ELSE IF ret.frags[i].seq \in Range(ret.new) THEN 3
    ELSE 0

\* C22: in the fragments that one emit returns, read in packet order, no Ack
\* follows a Push, and of two Pushes the earlier one is a fast retransmission if
\* the later one is, and a retransmission if the later one is.
C22_AcksThenResendsThenNew ==
    ret.op = "emit"
        => \A i, j \in DOMAIN ret.frags :
               i < j
                   => /\ ret.frags[j].cmd = CmdAck => ret.frags[i].cmd = CmdAck
                      /\ ret.frags[i].cmd = CmdPush
                             => /\ PartOf(i) # 0
                                /\ PartOf(j) # 0
                                /\ PartOf(i) <= PartOf(j)

\* one emit has returned an Ack, then a fast retransmission, then a
\* retransmission by timer (the send window of two Pushes then has no room for
\* a new Push)
C22_Witness ==
    /\ ret.op = "emit"
    /\ ret.acks # <<>> /\ ret.fast # <<>> /\ ret.rto # <<>>
    /\ Len(ret.frags) = Len(ret.acks) + Len(ret.fast) + Len(ret.rto) + Len(ret.new)

\* the sequences of the fragments of kind cmd among frags, in their order
SeqsOf(frags, cmd) ==
    LET sel == SelectSeq(frags, LAMBDA f : f.cmd = cmd)
    IN  [i \in DOMAIN sel |-> sel[i].seq]

\* C24: a set_state that is applied appends its remote_seqs_to_ack to the to-ack
\* queue and one that is rejected leaves the queue alone; an emit returns one
\* Ack for every entry of the queue, in the order of the queue, and leaves the
\* queue empty; nothing else changes the queue.
C24_QueuedAcksSentOnce ==
    ret.op # "init"
     => IF ret.op = "emit"
        THEN /\ SeqsOf(ret.frags, CmdAck) = ret.before.to_ack_queue
             /\ up[1].to_ack_queue = <<>>
        ELSE IF ret.op = "set_state" /\ ret.ok
        THEN up[1].to_ack_queue = ret.before.to_ack_queue \o ret.remote_seqs_to_ack
        ELSE up[1].to_ack_queue = ret.before.to_ack_queue

\* two deltas have each scheduled an Ack of the sequence 0, and one emit has
\* sent the two Acks and emptied the queue
C24_Witness ==
    /\ ret.op = "emit"
    /\ SeqsOf(ret.frags, CmdAck) = <<0, 0>>
    /\ up[1].stat.acks = 2
    /\ up[1].to_ack_queue = <<>>

\* how many of the sequences seqs are in the set S
CountIn(seqs, S) ==
    Len(SelectSeq(seqs, LAMBDA q : q \in S))

\* C26: an emit raises retransmissions by the number of Push fragments it
\* returns for sequences that were in the send window before, fast_retransmissions
\* by the number of those that the fast-retransmit step resent and rto_hits by
\* the number of those that the timer step resent, each of them by one or the
\* other; nothing else changes the three counters; so
\* retransmissions = rto_hits + fast_retransmissions throughout.
C26_ResendsCounted ==
    ret.op # "init"
     => /\ IF ret.op = "emit"
           THEN /\ up[1].stat.retransmissions
                       = ret.before.stat.retransmissions
                             + CountIn(SeqsOf(ret.frags, CmdPush),
                                       DOMAIN ret.before.swnd.wnd)
                /\ up[1].stat.fast_retransmissions
                       = ret.before.stat.fast_retransmissions + Len(ret.fast)
                /\ up[1].stat.rto_hits = ret.before.stat.rto_hits + Len(ret.rto)
                /\ Range(ret.fast) \cap Range(ret.rto) = {}
                /\ Range(ret.fast) \cup Range(ret.rto)
                       = Range(SeqsOf(ret.frags, CmdPush)) \cap DOMAIN ret.before.swnd.wnd
           ELSE /\ up[1].stat.retransmissions = ret.before.stat.retransmissions
                /\ up[1].stat.fast_retransmissions = ret.before.stat.fast_retransmissions
                /\ up[1].stat.rto_hits = ret.before.stat.rto_hits
        /\ up[1].stat.retransmissions
               = up[1].stat.rto_hits + up[1].stat.fast_retransmissions

\* one emit has resent a Push by fast retransmission and another one by timer
C26_Witness ==
    /\ ret.op = "emit"
    /\ ret.fast # <<>> /\ ret.rto # <<>>
    /\ up[1].stat.retransmissions = 2
    /\ up[1].stat.rto_hits = 1
    /\ up[1].stat.fast_retransmissions = 1

\* the bodies that the sequences 0 .. k - 1 were first emitted with, one after
\* the other
SentStream(k) ==
    Flatten([i \in 1..k |-> track.sent[i - 1]])

\* C27: the sequences that have been given to new Pushes are 0 .. swnd.end - 1;
\* an emit gives its new Pushes the sequences from swnd.end on, one by one;
\* every body holds at least one byte and at most mtu - PACKET_HDR_LEN -
\* PUSH_HDR_LEN bytes; the bodies in the order of their sequences, followed by
\* the slices still in the to-send queue, are the bytes that write has accepted,
\* in the order of the writes.
C27_BodiesCutTheStream ==
    /\ DOMAIN track.sent = 0..(up[1].swnd.end - 1)
    /\ \A q \in DOMAIN track.sent :
           /\ Len(track.sent[q]) >= 1
           /\ Len(track.sent[q]) <= up[1].mtu - PACKET_HDR_LEN - PUSH_HDR_LEN
    /\ SentStream(up[1].swnd.end) \o Flatten(up[1].to_send_queue.queue)
           = accepted[1]
    /\ ret.op = "emit"
           => ret.new = [i \in 1..Len(ret.new) |-> ret.before.swnd.end + i - 1]

\* a slice of one byte and a slice of two bytes were queued, and an emit has made
\* a body of the first slice and the head of the second, and another body of
\* the rest of the second
C27_Witness ==
    /\ ret.op = "emit"
    /\ ret.queued = <<1, 2>>
    /\ ret.new = <<0, 1>>
    /\ up[1].to_send_queue.queue = <<>>
    /\ track.sent = (0 :> <<0, 1>>) @@ (1 :> <<2>>)

\* C28: every Push fragment that an emit returns carries the body that its
\* sequence was first emitted with.
C28_ResentBodyIsFirstBody ==
    ret.op = "emit"
        => \A i \in DOMAIN ret.frags :
               ret.frags[i].cmd = CmdPush
                   => /\ ret.frags[i].seq \in DOMAIN track.sent
                      /\ ret.frags[i].body = track.sent[ret.frags[i].seq]

\* the sequence 0 went out with a body of two bytes, and an emit has resent it by
\* timer with these two bytes
C28_Witness ==
    /\ ret.op = "emit"
    /\ ret.rto = <<0>>
    /\ ret.new = <<>>
    /\ track.sent[0] = <<0, 1>>
    /\ \E i \in DOMAIN ret.frags :
           ret.frags[i] = PushFrag(0, <<0, 1>>)

\* C29: no two Push fragments that one emit returns have the same sequence.
C29_OnePushPerSequence ==
    ret.op = "emit"
        => \A i, j \in DOMAIN ret.frags :
               (/\ ret.frags[i].cmd = CmdPush
                /\ ret.frags[j].cmd = CmdPush
                /\ ret.frags[i].seq = ret.frags[j].seq) => i = j

\* the timer of a Push had run out when an emit resent it by fast
\* retransmission; the emit then resent another Push by timer, and not the first
\* one again
C29_Witness ==
    /\ ret.op = "emit"
    /\ Range(ret.fast) \cap ret.due # {}
    /\ ret.rto # <<>>
    /\ Range(ret.fast) \cap Range(ret.rto) = {}
    /\ Len(SeqsOf(ret.frags, CmdPush)) = Len(ret.fast) + Len(ret.rto) + Len(ret.new)

\* C30: a sequence that was emitted and is no longer in the send window does
\* not come back into it, and no emit returns a Push with it; the entries that
\* an emit takes off the timer heap are those whose timer has run out and whose
\* sequence is no longer in the send window, and none of them is resent.
C30_RemovedNeverResent ==
    ret.op # "init"
     => /\ \A q \in (DOMAIN (IF ret.op = "emit" THEN ret.tracked.sent
                               ELSE track.sent))
                         \ (DOMAIN ret.before.swnd.wnd) :
               /\ q \notin DOMAIN up[1].swnd.wnd
               /\ ret.op = "emit" => q \notin Range(SeqsOf(ret.frags, CmdPush))
        /\ ret.op = "emit"
               => /\ ret.stale = ret.due \ (DOMAIN ret.before.swnd.wnd)
                  /\ ret.stale \cap Range(SeqsOf(ret.frags, CmdPush)) = {}

\* the sequence 0 was acknowledged; when its timer had run out, an emit has taken
\* its entry off the heap and has resent by timer the sequence 1 only
C30_Witness ==
    /\ ret.op = "emit"
    /\ ret.stale = {0}
    /\ ret.rto = <<1>>
    /\ SeqsOf(ret.frags, CmdPush) = <<1>>
    /\ 0 \in DOMAIN track.sent
    /\ 0 \notin DOMAIN up[1].swnd.wnd

----------------------------------------------------------------------------
(* Claims about what the Downloader returns *)

\* the bodies of the sequences 0 .. k - 1, one after the other
Stream(k) ==
    Flatten([i \in 1..k |-> Body(i - 1)])

\* C23: as long as no packet was damaged (every sequence s then came with
\* Body(s)), the bodies of the sequences 0 .. k - 1 are what has been returned
\* and nothing is left over, the ready queue holds the bodies of the
\* sequences from k up to the start of the receive window, recv returns nothing
\* exactly if the start of the window is k, and otherwise recv returns the body
\* of the sequence k, whatever the order in which the Pushes arrived.
C23_SlicesInSequence ==
    \A k \in 0..3 :
        /\ (/\ down[2].stat.decoding_errors = 0
             /\ down[2].leftover = <<>>
             /\ returned[2] = Stream(k))
                => /\ returned[2] \o Flatten(down[2].recv_buf.sorted)
                          = Stream(down[2].recv_buf.rwnd.start)
                   /\ ~Recv(down[2]).some <=> down[2].recv_buf.rwnd.start = k
        /\ (/\ ret.op = "recv"
             /\ ret.before.stat.decoding_errors = 0
             /\ ret.before.leftover = <<>>
             /\ ret.read = Stream(k))
                => returned[2] = Stream(k + 1)

\* one packet has brought the sequence 1 and then the sequence 0, and the second
\* recv has returned the body of the sequence 1
C23_Witness ==
    /\ seen[2] = {PacketToBytes(2, 0, <<PushOf(1), PushOf(0)>>)}
    /\ budget.inputs = MaxInputs - 1 /\ budget.dups = MaxDups
    /\ ret.op = "recv"
    /\ down[2].stat.decoding_errors = 0
    /\ down[2].leftover = <<>>
    /\ returned[2] = Body(0) \o Body(1)

----------------------------------------------------------------------------
(* Claims about the deltas that pass between two connected endpoints *)

\* what set_state of the Uploader of e answers to the delta that the Downloader
\* of e makes of the packet p
Applies(e, p) ==
    LET Applied(r) == r.ok /\ SetState(up[e], r.state).ok
    IN  Applied(InputPacket(down[e], p))

\* C31: of every packet on its way between the two endpoints, no Ack carries the
\* sequence that the header carries as nack, the Downloader makes a delta, and
\* set_state accepts that delta.
C31_NoInvalidDelta ==
    LET Sound(pk) ==
            /\ pk.ok
            /\ \A i \in DOMAIN pk.frags :
                   pk.frags[i].cmd = CmdAck => pk.frags[i].seq # pk.nack
    IN  \A e \in Endpoints : \A p \in net[e] :
            Sound(PacketFromSlice(p)) /\ Applies(e, p)

\* a packet on its way acknowledges the sequence 0 and asks for the sequence 1,
\* while the receive window of its sender has no room
C31_Witness ==
    LET Full(pk) ==
            /\ pk.nack = 1
            /\ pk.rwnd = 0
            /\ \E i \in DOMAIN pk.frags :
                   pk.frags[i].cmd = CmdAck /\ pk.frags[i].seq = 0
    IN  \E p \in net[1] : Full(PacketFromSlice(p))

----------------------------------------------------------------------------
(* Claims about the fast-retransmit window *)

\* C32: a set_state none of whose acked_local_seqs is greater than its
\* remote_nack leaves the fast-retransmit window, its duplicate counter
\* included, as it was.
C32_NoOfferNoChange ==
    (/\ ret.op = "set_state"
     /\ \A i \in DOMAIN ret.acked_local_seqs :
            ~SeqLt(ret.remote_nack, ret.acked_local_seqs[i]))
        => up[1].fast_retransmission_wnd = ret.before.fast_retransmission_wnd

\* the third set_state in a row has acknowledged the sequence 1 below its
\* remote_nack 2 and has taken the two Pushes in flight off the send window; the
\* fast-retransmit window is as it was built and nothing was resent
C32_Witness ==
    /\ ret.op = "set_state" /\ ret.ok
    /\ ret.remote_nack = 2 /\ ret.acked_local_seqs = <<1>>
    /\ ret.removed = {0, 1}
    /\ budget.set_states = 0
    /\ up[1].fast_retransmission_wnd = FastRetransmissionWndNew(Threshold(up[1]))
    /\ up[1].stat.fast_retransmissions = 0

\* C33: the duplicate counter keeps the last offered remote_nack and a count; an
\* offer of the same value makes the count one more, an offer of another value
\* makes it 0, and the offer sets the boundaries of the fast-retransmit window
\* iff that count is at least the threshold.  So threshold 0 sets them on every
\* offer, and with threshold 1 the first offer ever made sets them iff its
\* remote_nack is 0.
C33_CounterActivates ==
    (ret.op = "set_state" /\ ret.ok /\ Offers(ret))
     => LET f == ret.before.fast_retransmission_wnd
            g == up[1].fast_retransmission_wnd
            d == f.duplicate_threshold.duplicate
            n == IF ret.remote_nack = d.value THEN d.count + 1 ELSE 0
            m == MaxAcked(<<>>, ret.acked_local_seqs)[1]
            set == g.start = ret.remote_nack /\ g.end = m
        IN  /\ g.duplicate_threshold.duplicate.value = ret.remote_nack
            /\ IF n >= Threshold(ret.before)
               THEN set
               ELSE /\ g.start = f.start /\ g.end = f.end
                    /\ g.duplicate_threshold.duplicate.count = n
            /\ Threshold(ret.before) = 0 => set
            /\ (Threshold(ret.before) = 1 /\ f = FastRetransmissionWndNew(1))
                   => (set <=> ret.remote_nack = 0)

\* with threshold 2, remote_nack 1 was offered twice: the first offer made the
\* count 0, the second made it 1, and the window is still as it was built
C33_Witness ==
    /\ ret.op = "set_state" /\ ret.ok /\ Offers(ret)
    /\ ret.remote_nack = 1
    /\ Threshold(up[1]) = 2
    /\ up[1].fast_retransmission_wnd.duplicate_threshold.duplicate
           = [value |-> 1, count |-> 1]
    /\ up[1].fast_retransmission_wnd.start = 0
    /\ up[1].fast_retransmission_wnd.end = 0

\* C34 as stated: an emit that has resent the send-window entries of the
\* fast-retransmit range leaves the window empty, and the emit that follows it
\* with no set_state in between makes no fast retransmission.
C34_EmptyAfterResend ==
    [][/\ (ret'.op = "emit" /\ ret'.fast # <<>>)
              => FrwIsEmpty(up'[1].fast_retransmission_wnd)
       /\ (ret.op = "emit" /\ ret'.op = "emit") => ret'.fast = <<>>]_vars

\* C34 amended: an emit that has resent the send-window entries of the
\* fast-retransmit range leaves the window starting one past the last sequence
\* resent, with the end it had; it resent no sequence twice and every sequence
\* it resent is outside the window it leaves.  A write, and an emit that resends
\* nothing, leave the window as it was, and the emit that follows an emit resends
\* at most Pushes that the emit before it sent for the first time.
C34_StartPastResent ==
    LET f == ret.before.fast_retransmission_wnd
        g == up[1].fast_retransmission_wnd
    IN  /\ (ret.op = "emit" /\ ret.fast # <<>>)
               => /\ g.start = AddUsize(ret.fast[Len(ret.fast)], 1)
                  /\ g.end = f.end
                  /\ \A i, j \in DOMAIN ret.fast :
                         i # j => ret.fast[i] # ret.fast[j]
                  /\ \A i \in DOMAIN ret.fast : ~FrwContains(g, ret.fast[i])
        /\ ((ret.op = "emit" /\ ret.fast = <<>>) \/ ret.op = "write")
               => g = f
        /\ (ret.op = "emit" /\ ret.after_emit)
               => Range(ret.fast) \subseteq Range(ret.new_before)

\* an emit resent sequence 0 of the range from 0 to 2 and left the window from 1
\* to 2, which holds no entry of the send window
C34_Witness ==
    /\ ret.op = "emit" /\ ret.fast = <<0>>
    /\ up[1].fast_retransmission_wnd.start = 1
    /\ up[1].fast_retransmission_wnd.end = 2
    /\ 1 \notin DOMAIN up[1].swnd.wnd

----------------------------------------------------------------------------
(* Claims about the round-trip time *)

\* C35: a set_state whose acked_local_seqs name no entry of the send window
\* leaves srtt as it was, whatever entries its remote_nack removes from the send
\* window, retransmitted or not.
C35_NackGivesNoSample ==
    (/\ ret.op = "set_state" /\ ret.ok
     /\ \A i \in DOMAIN ret.acked_local_seqs :
            ret.acked_local_seqs[i] \notin DOMAIN ret.before.swnd.wnd)
     => up[1].stat.srtt = ret.before.stat.srtt

\* remote_nack 2 alone removed sequence 1, which was sent once, some time ago,
\* and srtt is still the sample that the acknowledgement of sequence 0 gave
C35_Witness ==
    /\ ret.op = "set_state" /\ ret.ok
    /\ ret.remote_nack = 2 /\ ret.acked_local_seqs = <<>>
    /\ ret.removed = {1}
    /\ up[1].stat.retransmissions = 0
    /\ up[1].stat.srtt = <<0>>
    /\ \E k \in DOMAIN up[1].last_sent_heap : up[1].last_sent_heap[k] > 0

----------------------------------------------------------------------------
(* Claims about the receive window *)

\* C36: every out-of-order key the receive window stores is at or after its
\* start and before its start plus the length the receive buffer was built
\* with, and the stored out-of-order entries and the slices in the ready queue
\* together are never more than that length.
C36_StoredWithinLength ==
    \A e \in Endpoints :
        LET rb == down[e].recv_buf
        IN  /\ \A k \in DOMAIN rb.rwnd.wnd :
                   /\ SeqLe(rb.rwnd.start, k)
                   /\ SeqLt(k, AddUsize(rb.rwnd.start, rb.len))
            /\ Cardinality(DOMAIN rb.rwnd.wnd) + Len(rb.sorted) <= rb.len

\* after sequence 0 was taken and read, the window of length 2 that starts at 1
\* stores sequence 2, the last one it reaches
C36_Witness ==
    /\ down[2].recv_buf.len = 2
    /\ down[2].recv_buf.rwnd.start = 1
    /\ DOMAIN down[2].recv_buf.rwnd.wnd = {2}
    /\ down[2].recv_buf.sorted = <<>>
    /\ Len(returned[2]) > 0

----------------------------------------------------------------------------
(* Claims about a receiver that advertises no room *)

\* the ready queue of the receiver holds as many slices as the receive buffer is
\* long, the sender has been told of rwnd 0 with the acknowledgement of an
\* earlier Push, and it has a Push in flight that the receiver has still to take
ZeroWindowProbe ==
    /\ Len(down[2].recv_buf.sorted) = down[2].recv_buf.len
    /\ up[1].swnd.remote_rwnd_size = 0
    /\ up[1].swnd.end >= 2
    /\ DOMAIN up[1].swnd.wnd # {}
    /\ \A q \in DOMAIN up[1].swnd.wnd : SeqLe(down[2].recv_buf.rwnd.start, q)

----------------------------------------------------------------------------
(* Claims about the packets an emit returns *)

\* C38: every packet an emit returns holds at least one fragment, and an emit
\* returns no packet exactly when no ACK is queued, no send-window entry is in
\* the fast-retransmit range or due for the timer, and no new Push can be
\* allocated because the to-send queue is empty or the send window is full.  A
\* write of an empty slice changes nothing in the Uploader.
C38_NoEmptyPacket ==
    /\ ret.op = "emit"
         => /\ \A i \in DOMAIN ret.lens :
                   ret.lens[i] >= PACKET_HDR_LEN + ACK_HDR_LEN
            /\ (ret.lens = <<>>)
                   <=> /\ ret.before.to_ack_queue = <<>>
                       /\ \/ FrwIsEmpty(ret.before.fast_retransmission_wnd)
                          \/ SwndRange(ret.before.swnd,
                                       ret.before.fast_retransmission_wnd.start,
                                       ret.before.fast_retransmission_wnd.end) = <<>>
                       /\ \A q \in DOMAIN ret.before.swnd.wnd :
                              ret.before.swnd.wnd[q].last_sent < Rto(ret.before)
                       /\ \/ ret.before.to_send_queue.queue = <<>>
                          \/ SwndIsFull(ret.before.swnd)
    /\ (ret.op = "write" /\ ret.slice = <<>>) => up[1] = ret.before

\* an emit returned no packet although bytes are queued: the send window is
\* full, and the Push it holds is not due
C38_Witness ==
    /\ ret.op = "emit" /\ ret.lens = <<>>
    /\ up[1].to_send_queue.queue # <<>>
    /\ SwndIsFull(up[1].swnd)
    /\ DOMAIN up[1].swnd.wnd # {}

----------------------------------------------------------------------------
(* Claims about the assertions of the Uploader *)

\* the assertions of retransmitted(seq), for the sequences ks in turn
RECURSIVE ResentInside(_, _)
ResentInside(f, ks) ==
    \/ ks = <<>>
    \/ /\ FrwContains(f, Head(ks))
       /\ FrwCheckRep(FrwRetransmitted(f, Head(ks)))
       /\ ResentInside(FrwRetransmitted(f, Head(ks)), Tail(ks))

\* the send window w as it was when the sequence seq was pushed onto it
SwndBefore(w, seq) ==
    [w EXCEPT !.end = seq,
              !.wnd = [k \in {q \in DOMAIN w.wnd : SeqLt(q, seq)} |-> w.wnd[k]]]

\* C39: whatever the peer puts into remote_rwnd_size, remote_nack and
\* acked_local_seqs, no write, emit or set_state fails an assertion or an unwrap
\* of the Uploader: the representation checks of the send window and of the
\* fast-retransmit window hold after every call, every sequence of the send
\* window has its entry in the timer heap, a fast retransmission resends a
\* sequence inside the window, a new Push goes onto a send window that is not
\* full, with a body that is not empty, and every fragment fits its bundle.
C39_NoAssertionFails ==
    /\ SwndCheckRep(up[1].swnd)
    /\ FrwCheckRep(up[1].fast_retransmission_wnd)
    /\ DOMAIN up[1].swnd.wnd \subseteq DOMAIN up[1].last_sent_heap
    /\ (ret.op = "set_state" /\ ret.ok /\ Offers(ret))
           => SeqLe(ret.remote_nack, MaxAcked(<<>>, ret.acked_local_seqs)[1])
    /\ ret.op = "emit"
           => /\ ret.packed
              /\ ResentInside(ret.before.fast_retransmission_wnd, ret.fast)
              /\ Range(ret.fast) \cup Range(ret.rto)
                     \subseteq DOMAIN ret.before.last_sent_heap
              /\ \A i \in DOMAIN ret.new :
                     /\ ~SwndIsFull(SwndBefore(up[1].swnd, ret.new[i]))
                     /\ ret.new[i] \notin DOMAIN ret.before.last_sent_heap
                     /\ up[1].swnd.wnd[ret.new[i]].body # <<>>

\* the peer advertised rwnd 0 and acknowledged sequence 2, which was never sent;
\* an emit resent sequence 0 and left a fast-retransmit window that ends beyond
\* the send window
C39_Witness ==
    /\ ret.op = "emit" /\ ret.fast = <<0>>
    /\ up[1].swnd.remote_rwnd_size = 0
    /\ up[1].swnd.end = 1
    /\ up[1].fast_retransmission_wnd.start = 1
    /\ up[1].fast_retransmission_wnd.end = 2

----------------------------------------------------------------------------
(* Claims about the send window *)

\* C40: the size of the send window is its end minus its smallest sequence, or
\* 0 when it holds nothing, so that it counts the acknowledged holes above the
\* oldest sequence still in flight as well as the entries; the entries are never
\* more than swnd_size_cap, every entry has a sequence below the end, and the
\* start is never beyond the end.
C40_SizeIsSpan ==
    LET w == up[1].swnd
        keys == DOMAIN w.wnd
    IN  /\ SwndSize(w) = IF keys = {} THEN 0
                         ELSE w.end - (CHOOSE k \in keys : \A j \in keys : k <= j)
        /\ Cardinality(keys) <= SwndSize(w)
        /\ Cardinality(keys) <= w.wnd_size_cap
        /\ \A seq \in keys : SeqLt(seq, w.end)
        /\ SeqLe(SwndStart(w), w.end)

\* sequence 1 was acknowledged and sequence 0 is still in flight: the window
\* holds one entry, its size is 2, and it is full under a cap of 2 although the
\* peer advertises room for 3
C40_Witness ==
    /\ DOMAIN up[1].swnd.wnd = {0}
    /\ up[1].swnd.end = 2
    /\ SwndSize(up[1].swnd) = 2
    /\ up[1].swnd.remote_rwnd_size = 3
    /\ up[1].swnd.wnd_size_cap = 2
    /\ SwndIsFull(up[1].swnd)
    /\ up[1].to_send_queue.queue # <<>>
    /\ ret.op = "emit" /\ ret.new = <<>>

====
